---- MODULE Spec2Model ----
(***************************************************************************)
(* A model of the lottery bot (src/bot.py): lottery_begin with its login    *)
(* loop, the CAPTCHA solver solve_recaptcha, the orchestrator               *)
(* _process_all_lotteries with its passes and re-verifications, and the     *)
(* popup recovery handler _check_and_handle_pop_exceptions.                 *)
(*                                                                          *)
(* Specifications: Spec (lottery_begin and the orchestrator, the login, the *)
(* solver and the handler seen from their callers), SpecRows (two rows of   *)
(* the workbook), SpecPop (one call of the handler), SpecCaptcha (one call  *)
(* of solve_recaptcha), SpecLogin (the login section of lottery_begin),     *)
(* SpecOtp (one call of get_otp_from_gmail), SpecEntry (one call of         *)
(* _process_lottery_entry), SpecBook (load_data_from_excel over the rows    *)
(* of the workbook).                                                        *)
(*                                                                          *)
(* The page's texts are written in ASCII:                                   *)
(*   status labels   "Open" = uketsuke-chu, "Closed" = uketsuke-shuryo,     *)
(*                   "Completed" = uketsuke-kanryo, "Other" = any other     *)
(*                   text, "Empty" = element without text, "Absent" = no    *)
(*                   status element;                                        *)
(*   result statuses "Success" = seiko, "Failure" = shippai,                *)
(*                   "SkippedClosed" = skip(shuryo), "SkippedCompleted" =   *)
(*                   skip(kanryo), "NotExist" = sonzai shinai,              *)
(*                   "Unknown" = fumei, "Interrupted" = chudan.             *)
(* The 'reason' text of a result entry is not modelled.                     *)
(***************************************************************************)
EXTENDS Naturals, Sequences, FiniteSets

\* ---------------------------------------------------------------- bounds
\* Number of result entries recorded before exploration of a run stops.
MaxResults == 3
\* Number of times the page may deviate from its sticky behaviour in a run on
\* one item: a label that changes by itself, or a status read that fails
\* transiently. Runs on two items are explored on a page that deviates during
\* a verification loop when the first item is open or completed and the second
\* has an empty status element; other runs on several items are explored on
\* pages that do not deviate.
MaxAnomalies == 1
\* Number of answers to the polls of one CAPTCHA task that the log of answers
\* keeps; later answers of the same task are not logged.
MaxLog == 3
\* Number of rows of the workbook that load_data_from_excel goes through.
MaxRows == 3

\* ------------------------------------------------------- program constants
\* _process_all_lotteries: max_retry_attempts
max_retry_attempts == 10
\* _check_and_handle_pop_exceptions: max_reload_attempts (default argument)
max_reload_attempts == 5
\* solve_recaptcha: max_retries (default argument)
max_retries == 5
\* solve_recaptcha: 'for i in range(60)', the polls of one task
poll_limit == 60
\* lottery_begin: max_login_attempts
max_login_attempts == 3
\* lottery_begin: max_otp_retries
max_otp_retries == 2
\* get_otp_from_gmail: 'for attempt in range(12)'
max_otp_polls == 12
\* lottery_begin: max_reload_attempts of the pop04 loop that follows the login
max_reload_attempts_after_login == 6

Labels == {"Open", "Closed", "Completed", "Other", "Empty", "Absent"}

VARIABLES
    pc,                  \* position in lottery_begin / _process_all_lotteries
    selected_lotteries,  \* sorted(set(selected_lotteries)), a sequence
    label,               \* the page: status label of each lottery item
    anomalies,           \* page deviations so far
    stopped,             \* the stop predicate has answered "stop" to a check_stop
    completed_lotteries,
    lottery_results,     \* sequence of [lottery, status]
    retry_attempt,
    lottery_index,       \* 1-based index into selected_lotteries
    checked_count,
    reload_occurred,
    result,              \* what _process_lottery_entry returned for the current item
    has_open_lotteries,
    all_verified,        \* all_verified_completed / all_final_verified
    verify_index,        \* 1-based index of the running verification loop
    final_status,
    final_message,       \* [head, parts]
    changed,             \* history: items a read has shown with another label than at first
    entry_results,       \* history: how the submission sub-flow ended, per item
    pop_reloaded,        \* history: the popup handler reported a reload
    reopened,            \* history: items a verification loop has read as Open
    readAfterStop,       \* history: items read or submitted after a stop was observed
    prev,                \* history: what the account's previous batch returned
    hpc,                 \* position in _check_and_handle_pop_exceptions
    pop05,               \* the page: what the pop05 overlay shows
    pop04,               \* the page: what the pop04 overlay shows
    overlay,             \* the branch of the handler that recovers: "pop05" / "pop04"
    reload_attempt,
    handler_ret,         \* "True" / "False" once the handler has returned
    close_attempted,     \* history: the handler went for the overlay's close control
    afterStop,           \* history: side effects performed after a stop was observed
    checks,              \* history: what the handler saw each time it looked at an overlay
    reloads,             \* history: reloads of the page that went through
    passes,              \* history: passes of the orchestrator's outer loop started
    visit_log,           \* history: the items the current pass has come to, in order
    last_open,           \* history: items whose most recent status read was Open
    sub_reloaded,        \* history: the call site of the last sub-flow call at
                         \* which the popup handler returned True, or "none"
    spc,                 \* position in solve_recaptcha
    CAPTCHA_API_KEY,     \* "" when the key is not configured
    site_key,            \* "none" / "short" (under 20 characters) / "valid"
    attempt,             \* solve_recaptcha: the attempt of the outer loop
    poll,                \* solve_recaptcha: polls made in the inner loop (i)
    captcha_solution,    \* "none" / "token"
    submitted,           \* history: tasks submitted by this call
    polled,              \* history: polls of the result endpoint for the current task
    poll_log,            \* history: the first answers to the polls of the current task
    malformed,           \* history: a malformed answer was received ("none" if not)
    error_reported,      \* history: the provider reported an error for the
                         \* task of the current attempt
    lpc,                 \* position in the login section of lottery_begin
    login_attempt,       \* lottery_begin: 'attempt' of the login loop
    otp_retry,
    failed_attempts,     \* history: login attempts that ended without authentication
    form_submitted,      \* history: the login button was clicked in this attempt
    current_url,         \* the page the session is on: "login", "mfa" or "other"
    status_message,      \* what check_login_status_message reads on that page
    passcode_shown,      \* the page source holds the passcode prompt
    otp_calls,           \* history: calls of get_otp_from_gmail in this batch
    attempt_otp_calls,   \* history: calls of get_otp_from_gmail in this attempt
    post_reload_attempt, \* reload_attempt of the pop04 loop that follows the login
    post_reloads,        \* history: reloads of the page that went through there
    gpc,                 \* position in get_otp_from_gmail
    EMAIL,               \* the module-level address of the account
    otp_attempt,         \* the loop variable 'attempt' of get_otp_from_gmail
    otp_polls,           \* history: inbox searches with the passcode query
    otp_poll_errors,     \* history: searches that raised an exception
    broader_searches,    \* history: searches with the broader query
    epc,                 \* position in _process_lottery_entry
    strategy,            \* the selection strategy the sub-flow has come to
    radio_clicked,
    strategy_log,        \* history: the strategies attempted and how each ended
    entry_steps,         \* history: the controls clicked after the selection
    entry_ret,           \* what _process_lottery_entry returned, or "none"
    wpc,                 \* position in load_data_from_excel
    PASSWORD,            \* the module-level password: "none", "env" or a row's
    worksheet,           \* the rows of the workbook: which of columns A, B are filled
    row,                 \* the row the loop of load_data_from_excel has come to
    typed                \* history: the credentials each login had to type

vars == <<pc, selected_lotteries, label, anomalies, stopped, completed_lotteries,
          lottery_results, retry_attempt, lottery_index, checked_count,
          reload_occurred, result, has_open_lotteries, all_verified, verify_index,
          final_status, final_message, changed, entry_results, pop_reloaded, reopened,
          readAfterStop, prev,
          hpc, pop05, pop04, overlay, reload_attempt, handler_ret, close_attempted,
          afterStop, checks, reloads, passes, visit_log, last_open,
          sub_reloaded,
          spc, CAPTCHA_API_KEY, site_key, attempt, poll, captcha_solution, submitted,
          polled, poll_log, malformed, error_reported,
          lpc, login_attempt, otp_retry, failed_attempts, form_submitted,
          current_url, status_message, passcode_shown, otp_calls,
          attempt_otp_calls, post_reload_attempt, post_reloads,
          gpc, EMAIL, otp_attempt, otp_polls, otp_poll_errors, broader_searches,
          epc, strategy, radio_clicked, strategy_log, entry_steps, entry_ret,
          wpc, PASSWORD, worksheet, row, typed>>

\* ------------------------------------------------------------ pure helpers

RECURSIVE SortedSeq(_)
\* sorted(S) for a finite set of numbers
SortedSeq(S) ==
    IF S = {} THEN <<>>
    ELSE LET m == CHOOSE x \in S : \A y \in S : x <= y
         IN <<m>> \o SortedSeq(S \ {m})

Range(s) == {s[i] : i \in 1..Len(s)}

\* set_selected_lotteries / _process_all_lotteries: the caller's list, made a
\* sorted duplicate-free list; [1] when it is None or empty.
NormalizeSelected(input) ==
    IF Len(input) = 0 THEN <<1>> ELSE SortedSeq(Range(input))

Entry(n, st) == [lottery |-> n, status |-> st]

Statuses(rs) == {rs[i].status : i \in 1..Len(rs)}

\* The short phrase of one result entry in the detail message.
Phrase(r) == [lottery |-> r.lottery, phrase |-> r.status]

RECURSIVE DetailParts(_)
\* detail_parts: one phrase per entry whose status is one of the seven known.
DetailParts(rs) ==
    IF rs = <<>> THEN <<>>
    ELSE (IF Head(rs).status \in {"Success", "Failure", "SkippedClosed",
                                   "SkippedCompleted", "NotExist", "Interrupted",
                                   "Unknown"}
          THEN <<Phrase(Head(rs))>> ELSE <<>>) \o DetailParts(Tail(rs))

Message(head, parts) == [head |-> head, parts |-> parts]

\* A variant of the verdict in which a closed item counts like a completed one.
DetermineStatus_ClosedCounted(rs) ==
    IF "Interrupted" \in Statuses(rs) THEN "Interrupted"
    ELSE IF Statuses(rs) \cap {"Failure", "NotExist"} # {} THEN "Failure"
    ELSE IF \A i \in 1..Len(rs) :
               rs[i].status \in {"Success", "SkippedCompleted", "SkippedClosed"}
         THEN "Success"
    ELSE "Failure"

\* The verdict of the final-status block: flags over the recorded results.
DetermineStatus(rs) ==
    IF "Interrupted" \in Statuses(rs) THEN "Interrupted"
    ELSE IF Statuses(rs) \cap {"Failure", "SkippedClosed", "NotExist"} # {}
         THEN "Failure"
    ELSE IF \A i \in 1..Len(rs) : rs[i].status \in {"Success", "SkippedCompleted"}
         THEN "Success"
    ELSE "Failure"

\* A variant of the message that leaves the per-item phrases out.
DetermineMessage_NoDetail(rs) ==
    CASE DetermineStatus(rs) = "Interrupted" -> Message("InterruptedPrefix", <<>>)
      [] DetermineStatus(rs) = "Success"     -> Message("Success", <<>>)
      [] OTHER                               -> Message("FailurePrefix", <<>>)

DetermineMessage(rs) ==
    CASE DetermineStatus(rs) = "Interrupted" -> Message("InterruptedPrefix", DetailParts(rs))
      [] DetermineStatus(rs) = "Success"     -> Message("Success", <<>>)
      [] OTHER                               -> Message("FailurePrefix", DetailParts(rs))

\* Index of the first entry of rs for lottery n that satisfies P, 0 if none.
FirstIndex(rs, n, sts) ==
    IF \E i \in 1..Len(rs) : rs[i].lottery = n /\ rs[i].status \in sts
    THEN CHOOSE i \in 1..Len(rs) :
            /\ rs[i].lottery = n /\ rs[i].status \in sts
            /\ \A j \in 1..(i-1) : ~(rs[j].lottery = n /\ rs[j].status \in sts)
    ELSE 0

AllStatuses == {"Success", "Failure", "SkippedClosed", "SkippedCompleted",
                "NotExist", "Unknown", "Interrupted"}

\* A variant of the re-verification flip that does not look at the status of
\* the entry: the first entry of lottery n becomes 'Failure'.
DemoteAtReverify_AnyStatus(rs, n) ==
    LET i == FirstIndex(rs, n, AllStatuses)
    IN IF i = 0 THEN rs ELSE [rs EXCEPT ![i].status = "Failure"]

\* Re-verification loop: the first 'Success' entry of lottery n becomes 'Failure'.
DemoteAtReverify(rs, n) ==
    LET i == FirstIndex(rs, n, {"Success"})
    IN IF i = 0 THEN rs ELSE [rs EXCEPT ![i].status = "Failure"]

\* Final verification loop: the first entry of lottery n, if it is 'Success',
\* becomes 'Failure' (the loop breaks at the first entry of n whatever it is).
DemoteAtFinal(rs, n) ==
    LET i == FirstIndex(rs, n, AllStatuses)
    IN IF i # 0 /\ rs[i].status = "Success"
       THEN [rs EXCEPT ![i].status = "Failure"] ELSE rs

\* ------------------------------------------------------ the page, read

\* What _check_lottery_status returns when the page shows label l for the item.
StatusText(l) ==
    IF l \in {"Empty", "Absent", "ReadFailed", "StopSwallowed"} THEN "None" ELSE l
StatusExists(l) == l \notin {"Absent", "ReadFailed", "StopSwallowed"}

ReadOf(l, lab, an, st) ==
    [text |-> StatusText(l), exists |-> StatusExists(l), shown |-> l,
     label |-> lab, anomalies |-> an, stopped |-> st]

\* _check_lottery_status(n): every outcome one call can have.
\*  - the item's status element is read as the page shows it;
\*  - the page deviates: the label has changed by itself, or the read fails
\*    (navigation error, list container missing, any exception): (None, False);
\*  - the page is off apply.html and check_stop() raises inside the navigation
\*    wait: the surrounding 'except Exception' returns (None, False).
AnomalyBudget ==
    IF Len(selected_lotteries) = 1 THEN MaxAnomalies
    ELSE IF /\ Len(selected_lotteries) = 2
            /\ pc \in {"reverify", "final_verify"}
            /\ label[selected_lotteries[1]] \in {"Open", "Completed"}
            /\ label[selected_lotteries[2]] = "Empty"
         THEN MaxAnomalies
         ELSE 0

StatusReads(n) ==
    {ReadOf(label[n], label[n], anomalies, stopped)}
    \cup (IF anomalies < AnomalyBudget
          THEN {ReadOf(l, l, anomalies + 1, stopped) : l \in Labels \ {label[n]}}
               \cup {ReadOf("ReadFailed", label[n], anomalies + 1, stopped)}
          ELSE {})
    \cup {ReadOf("StopSwallowed", label[n], anomalies, TRUE)}

\* The caller's lists of lottery numbers: none, a duplicate, one that does not
\* start at 1, unsorted ones.
Inputs == {<<>>, <<1, 1>>, <<2>>, <<2, 1>>, <<3, 1, 2>>}

\* The labels of a regular page: every item open, closed or completed.
RegularLabels == {"Open", "Closed", "Completed"}

\* SessionOutcome with the entries recorded so far handed over when the
\* batch is cancelled.
SessionOutcome_KeepsResults ==
    CASE pc = "returned" ->
            [results |-> lottery_results, final_status |-> final_status,
             message |-> final_message]
      [] pc = "interrupted" ->
            [results |-> lottery_results, final_status |-> "Interrupted",
             message |-> Message("StoppedByUser", <<>>)]
      [] pc = "login_failed" ->
            [results |-> <<>>, final_status |-> "Failure",
             message |-> Message("LoginError", <<>>)]
      [] OTHER -> [results |-> <<>>, final_status |-> "None",
                   message |-> Message("None", <<>>)]

\* The returned dict of lottery_begin (SessionOutcome).
NoOutcome == [results |-> <<>>, final_status |-> "None", message |-> Message("None", <<>>)]
SessionOutcome ==
    CASE pc = "returned" ->
            [results |-> lottery_results, final_status |-> final_status,
             message |-> final_message]
      [] pc = "interrupted" ->
            [results |-> <<>>, final_status |-> "Interrupted",
             message |-> Message("StoppedByUser", <<>>)]
      [] pc = "login_failed" ->
            [results |-> <<>>, final_status |-> "Failure",
             message |-> Message("LoginError", <<>>)]
      [] OTHER -> NoOutcome

\* The statuses of a results list as a multiset: status -> number of entries.
StatusCount(rs) ==
    [s \in AllStatuses |-> Cardinality({i \in 1..Len(rs) : rs[i].status = s})]

NoRun == [statuses |-> StatusCount(<<>>), final_status |-> "None"]

Done == pc \in {"returned", "interrupted", "login_failed"}

\* ------------------------------------------------------------------- Init

\* The state when lottery_begin is entered for the selection sel on a page
\* whose items carry the labels lab.
Start(sel, lab) ==
    /\ selected_lotteries = sel
    /\ label = lab
    /\ stopped = FALSE
    /\ completed_lotteries = {}
    /\ lottery_results = <<>>
    /\ retry_attempt = 0
    /\ lottery_index = 1
    /\ checked_count = 0
    /\ reload_occurred = FALSE
    /\ result = "none"
    /\ has_open_lotteries = FALSE
    /\ all_verified = TRUE
    /\ verify_index = 1
    /\ final_status = "Failure"
    /\ final_message = Message("ProcessingError", <<>>)
    /\ changed = {}
    /\ entry_results = [n \in Range(sel) |-> {}]
    /\ pop_reloaded = FALSE
    /\ reopened = {}
    /\ readAfterStop = {}
    /\ prev = NoRun
    /\ hpc = "start"
    /\ pop05 = "none"
    /\ pop04 = "none"
    /\ overlay = "none"
    /\ reload_attempt = 0
    /\ handler_ret = "none"
    /\ close_attempted = FALSE
    /\ afterStop = {}
    /\ checks = <<>>
    /\ reloads = 0
    /\ passes = 0
    /\ visit_log = <<>>
    /\ last_open = {}
    /\ sub_reloaded = "none"

\* solve_recaptcha is not running: nothing of it has a value yet.
SolverIdle ==
    /\ spc = "idle"
    /\ CAPTCHA_API_KEY = "key"
    /\ site_key = "none"
    /\ attempt = 0
    /\ poll = 0
    /\ captcha_solution = "none"
    /\ submitted = 0
    /\ polled = 0
    /\ poll_log = <<>>
    /\ malformed = "none"
    /\ error_reported = FALSE

\* The login section of lottery_begin seen as one step: its loop is not entered.
LoginIdle ==
    /\ lpc = "idle"
    /\ login_attempt = 0
    /\ otp_retry = 0
    /\ failed_attempts = 0
    /\ form_submitted = FALSE
    /\ current_url = "login"
    /\ status_message = "none"
    /\ passcode_shown = FALSE
    /\ otp_calls = 0
    /\ attempt_otp_calls = 0
    /\ post_reload_attempt = 0
    /\ post_reloads = 0

\* get_otp_from_gmail is not running.
GmailIdle ==
    /\ gpc = "idle"
    /\ EMAIL = "set"
    /\ otp_attempt = 0
    /\ otp_polls = 0
    /\ otp_poll_errors = 0
    /\ broader_searches = 0

\* _process_lottery_entry is not running.
EntryIdle ==
    /\ epc = "idle"
    /\ strategy = 0
    /\ radio_clicked = FALSE
    /\ strategy_log = <<>>
    /\ entry_steps = <<>>
    /\ entry_ret = "none"

\* load_data_from_excel is not running: the password is the configured one.
BookIdle ==
    /\ wpc = "idle"
    /\ PASSWORD = "env"
    /\ worksheet = <<>>
    /\ row = 0
    /\ typed = <<>>

Init ==
    \E i \in Inputs :
       LET sel == NormalizeSelected(i) IN
       \* Batches of three items are explored on regular pages.
       \E lab \in [Range(sel) -> IF Len(sel) > 2 THEN RegularLabels ELSE Labels] :
          /\ Start(sel, lab)
          /\ SolverIdle
          /\ LoginIdle
          /\ GmailIdle
          /\ EntryIdle
          /\ BookIdle
          /\ pc = "login"
          /\ anomalies = 0

popVars == <<hpc, pop05, pop04, overlay, reload_attempt, handler_ret, close_attempted,
             afterStop, checks, reloads>>
solverVars == <<spc, CAPTCHA_API_KEY, site_key, attempt, poll, captcha_solution,
                submitted, polled, poll_log, malformed, error_reported>>
loginPage == <<current_url, status_message, passcode_shown>>
otpHist == <<otp_calls, attempt_otp_calls>>
postVars == <<post_reload_attempt, post_reloads>>
loginVars == <<lpc, login_attempt, otp_retry, failed_attempts, form_submitted,
               loginPage, otpHist, postVars>>
gmailVars == <<gpc, EMAIL, otp_attempt, otp_polls, otp_poll_errors,
               broader_searches>>
entryVars == <<epc, strategy, radio_clicked, strategy_log, entry_steps, entry_ret>>
bookVars == <<wpc, PASSWORD, worksheet, row, typed>>
authVars == <<solverVars, loginVars, gmailVars, entryVars, bookVars>>
passVars == <<passes, visit_log>>
readVars == <<last_open, sub_reloaded>>
runVars == <<selected_lotteries, prev, popVars, authVars, passVars, readVars>>

\* The items whose most recent status read was Open, after item n was read
\* with the outcome r.
LastOpen(n, r) ==
    IF r.exists /\ r.text = "Open" THEN last_open \cup {n} ELSE last_open \ {n}
pageVars == <<label, anomalies>>
histVars == <<changed, entry_results, pop_reloaded, reopened, readAfterStop>>
loopVars == <<lottery_index, checked_count, reload_occurred, result>>
verifyVars == <<has_open_lotteries, all_verified, verify_index>>
finalVars == <<final_status, final_message>>

\* StopIteration leaves _process_all_lotteries and is caught in lottery_begin.
RaiseStop ==
    /\ pc' = "interrupted"
    /\ stopped' = TRUE

\* check_stop() outside any 'except Exception': either the predicate says go on
\* (only if it has not said stop before), or StopIteration propagates.
CanPass == ~stopped

\* ------------------------------------------------------------ lottery_begin

\* The login section of lottery_begin up to the call of the orchestrator:
\* it confirms the login and goes on, or raises (authentication exhausted),
\* or a check_stop() raises StopIteration.
LoginConfirmed ==
    /\ pc = "login"
    /\ pc' = "pass_start"
    /\ UNCHANGED <<runVars, pageVars, stopped, completed_lotteries,
                   lottery_results, retry_attempt, loopVars, verifyVars, finalVars,
                   histVars>>

LoginRaises ==
    /\ pc = "login"
    /\ pc' = "login_failed"
    /\ UNCHANGED <<runVars, pageVars, stopped, completed_lotteries,
                   lottery_results, retry_attempt, loopVars, verifyVars, finalVars,
                   histVars>>

LoginStopped ==
    /\ pc = "login"
    /\ RaiseStop
    /\ UNCHANGED <<runVars, pageVars, completed_lotteries,
                   lottery_results, retry_attempt, loopVars, verifyVars, finalVars,
                   histVars>>

\* --------------------------------------------------- _process_all_lotteries

\* 'while retry_attempt < max_retry_attempts' is false: the loop is left and the
\* function returns final_status / final_message as they stand.
LoopExit ==
    /\ pc = "pass_start"
    /\ retry_attempt >= max_retry_attempts
    /\ pc' = "returned"
    /\ UNCHANGED <<runVars, pageVars, stopped, completed_lotteries,
                   lottery_results, retry_attempt, loopVars, verifyVars, finalVars,
                   histVars>>

\* Start of one pass: the two check_stop(), the CAPTCHA check (which swallows a
\* StopIteration of its own) and the navigation to the apply page, whose wait
\* loop runs check_stop() under 'except Exception'.
PassStart ==
    /\ pc = "pass_start"
    /\ retry_attempt < max_retry_attempts
    /\ reload_occurred' = FALSE
    /\ lottery_index' = 1
    /\ checked_count' = 0
    /\ \/ /\ CanPass
          /\ pc' = "item"
          /\ stopped' \in BOOLEAN     \* TRUE: swallowed in the navigation wait
       \/ RaiseStop
    /\ passes' = passes + 1
    /\ visit_log' = <<>>
    /\ UNCHANGED <<selected_lotteries, prev, popVars, authVars, readVars, pageVars,
                   completed_lotteries, lottery_results,
                   retry_attempt, result, verifyVars, finalVars, histVars>>

CanRecord == Len(lottery_results) < MaxResults

\* A variant of the classification that takes Completed for Closed.
Classify_CompletedAsClosed(r) ==
    IF ~r.exists THEN "NotExist"
    ELSE IF r.text = "None" THEN "skip"
    ELSE IF r.text \in {"Closed", "Completed"} THEN "SkippedClosed"
    ELSE IF r.text = "Open" THEN "open"
    ELSE "Unknown"

\* What the classification of a status read records for lottery n:
\* "skip" (no entry), "open" (run the sub-flow) or the status of the entry.
Classify(r) ==
    IF ~r.exists THEN "NotExist"
    ELSE IF r.text = "None" THEN "skip"
    ELSE IF r.text = "Closed" THEN "SkippedClosed"
    ELSE IF r.text = "Completed" THEN "SkippedCompleted"
    ELSE IF r.text = "Open" THEN "open"
    ELSE "Unknown"

\* One iteration of the inner while loop up to the classification of the item.
ItemRaise ==
    /\ pc = "item"
    /\ lottery_index <= Len(selected_lotteries)
    /\ RaiseStop
    /\ UNCHANGED <<runVars, pageVars, completed_lotteries, lottery_results,
                   retry_attempt, loopVars, verifyVars, finalVars, histVars>>

ItemSkipCompleted ==
    /\ pc = "item"
    /\ lottery_index <= Len(selected_lotteries)
    /\ CanPass
    /\ selected_lotteries[lottery_index] \in completed_lotteries
    /\ lottery_index' = lottery_index + 1
    /\ checked_count' = checked_count + 1
    /\ stopped' \in BOOLEAN           \* TRUE: swallowed in the navigation wait
    /\ visit_log' = Append(visit_log, selected_lotteries[lottery_index])
    /\ UNCHANGED <<pc, selected_lotteries, prev, popVars, authVars, passes, readVars,
                   pageVars,
                   completed_lotteries,
                   lottery_results, retry_attempt, reload_occurred, result,
                   verifyVars, finalVars, histVars>>

ItemClassify ==
    /\ pc = "item"
    /\ lottery_index <= Len(selected_lotteries)
    /\ CanPass
    /\ LET n == selected_lotteries[lottery_index] IN
       /\ n \notin completed_lotteries
       /\ \E navStop \in BOOLEAN, r \in StatusReads(n) :
          LET c == Classify(r)
              st == navStop \/ r.stopped
          IN
          /\ label' = [label EXCEPT ![n] = r.label]
          /\ anomalies' = r.anomalies
          /\ changed' = (IF r.shown # label[n] THEN changed \cup {n} ELSE changed)
          /\ readAfterStop' = IF navStop THEN readAfterStop \cup {n} ELSE readAfterStop
          /\ last_open' = LastOpen(n, r)
          /\ UNCHANGED sub_reloaded
          /\ checked_count' = checked_count + 1
          /\ IF c = "open"
             THEN \* check_stop() before the try block
                  /\ UNCHANGED <<lottery_results, completed_lotteries, lottery_index>>
                  /\ \/ /\ ~st
                        /\ pc' = "entry"
                        /\ stopped' = FALSE
                     \/ RaiseStop
             ELSE /\ c # "skip" => CanRecord
                  /\ lottery_results' =
                        IF c = "skip" THEN lottery_results
                        ELSE Append(lottery_results, Entry(n, c))
                  /\ completed_lotteries' =
                        IF c = "SkippedCompleted" THEN completed_lotteries \cup {n}
                        ELSE completed_lotteries
                  /\ lottery_index' = lottery_index + 1
                  /\ stopped' = st
                  /\ pc' = "item"
    /\ visit_log' = Append(visit_log, selected_lotteries[lottery_index])
    /\ UNCHANGED <<selected_lotteries, prev, popVars, authVars, passes,
                   retry_attempt, reload_occurred, result,
                   verifyVars, finalVars, entry_results, pop_reloaded, reopened>>

\* _process_lottery_entry(n) is called for an open item. It returns True, False
\* or 'reload_needed', or lets StopIteration through; every other exception is
\* caught inside it and becomes False. A check_stop() that raises inside a
\* selection strategy is swallowed by the strategy's 'except Exception'; the
\* later strategies then fail the same way and the call returns False with the
\* stop observed. After any other swallowed stop the next check_stop() of the
\* sub-flow lets StopIteration through.
\* The page may register the application once the apply button was clicked.
\* EntryReturns with an error of the sub-flow ending the batch unrecorded.
EntryReturns_ErrorAborts ==
    /\ pc = "entry"
    /\ LET n == selected_lotteries[lottery_index] IN
       \E res \in {"True", "False"} :
          /\ entry_results' = [entry_results EXCEPT ![n] = @ \cup {res}]
          /\ CanRecord
          /\ result' = res
          /\ completed_lotteries' =
                IF res = "True" THEN completed_lotteries \cup {n}
                ELSE completed_lotteries
          /\ lottery_results' =
                IF res = "True" THEN Append(lottery_results, Entry(n, "Success"))
                ELSE lottery_results
          /\ pc' = IF res = "True" THEN "pop" ELSE "returned"
    /\ UNCHANGED <<selected_lotteries, prev, popVars, authVars, passVars,
                   readVars, pageVars, stopped, lottery_index, checked_count,
                   reload_occurred, retry_attempt, verifyVars, finalVars,
                   changed, pop_reloaded, reopened, readAfterStop>>

\* The call sites of _check_and_handle_pop_exceptions inside the sub-flow at
\* which the handler can have returned True when the call returns res: the
\* check after the apply click returns 'reload_needed' on True; the check
\* after a failed close of the pop01 modal and the check that ends the
\* sub-flow go on to 'return True' whatever the handler says.
SubSites(res) ==
    IF res = "reload_needed" THEN {"after_apply"}
    ELSE IF res = "True" THEN {"none", "after_modal", "final"}
    ELSE {"none"}

\* EntryReturns recording a Failure entry for 'reload_needed'.
EntryReturns_ReloadRecorded ==
    /\ pc = "entry"
    /\ LET n == selected_lotteries[lottery_index] IN
       \E res \in {"True", "False", "reload_needed"} :
       \E swallow \in (IF res = "False" THEN BOOLEAN ELSE {FALSE}) :
          /\ entry_results' = [entry_results EXCEPT ![n] = @ \cup {res}]
          /\ sub_reloaded' \in SubSites(res)
          /\ stopped' = swallow
          /\ \E l \in (IF res = "False" THEN {label[n]} ELSE {label[n], "Completed"}) :
                /\ label' = [label EXCEPT ![n] = l]
                /\ changed' = (IF l # label[n] THEN changed \cup {n} ELSE changed)
          /\ IF res = "reload_needed"
             THEN /\ reload_occurred' = TRUE
                  /\ retry_attempt' = retry_attempt + 1
                  /\ pc' = "pass_end"
                  /\ lottery_results' = Append(lottery_results, Entry(n, "Failure"))
                  /\ UNCHANGED <<completed_lotteries, result>>
             ELSE /\ CanRecord
                  /\ result' = res
                  /\ completed_lotteries' =
                        IF res = "True" THEN completed_lotteries \cup {n}
                        ELSE completed_lotteries
                  /\ lottery_results' =
                        Append(lottery_results,
                               Entry(n, IF res = "True" THEN "Success" ELSE "Failure"))
                  /\ pc' = "pop"
                  /\ UNCHANGED <<reload_occurred, retry_attempt>>
    /\ UNCHANGED <<selected_lotteries, prev, popVars, authVars, passVars,
                   last_open, anomalies, lottery_index, checked_count,
                   verifyVars, finalVars, pop_reloaded, reopened, readAfterStop>>

EntryReturns ==
    /\ pc = "entry"
    /\ LET n == selected_lotteries[lottery_index] IN
       \E res \in {"True", "False", "reload_needed"} :
       \E swallow \in (IF res = "False" THEN BOOLEAN ELSE {FALSE}) :
          /\ entry_results' = [entry_results EXCEPT ![n] = @ \cup {res}]
          /\ sub_reloaded' \in SubSites(res)
          /\ stopped' = swallow
          /\ \E l \in (IF res = "False" THEN {label[n]} ELSE {label[n], "Completed"}) :
                /\ label' = [label EXCEPT ![n] = l]
                /\ changed' = (IF l # label[n] THEN changed \cup {n} ELSE changed)
          /\ IF res = "reload_needed"
             THEN /\ reload_occurred' = TRUE
                  /\ retry_attempt' = retry_attempt + 1
                  /\ pc' = "pass_end"
                  /\ UNCHANGED <<lottery_results, completed_lotteries, result>>
             ELSE /\ CanRecord
                  /\ result' = res
                  /\ completed_lotteries' =
                        IF res = "True" THEN completed_lotteries \cup {n}
                        ELSE completed_lotteries
                  /\ lottery_results' =
                        Append(lottery_results,
                               Entry(n, IF res = "True" THEN "Success" ELSE "Failure"))
                  /\ pc' = "pop"
                  /\ UNCHANGED <<reload_occurred, retry_attempt>>
    /\ UNCHANGED <<selected_lotteries, prev, popVars, authVars, passVars,
                   last_open, anomalies, lottery_index, checked_count,
                   verifyVars, finalVars, pop_reloaded, reopened, readAfterStop>>

\* 'except StopIteration' of the orchestrator: an Interrupted entry is appended
\* to the local list and the exception is raised again.
EntryStopped ==
    /\ pc = "entry"
    /\ LET n == selected_lotteries[lottery_index] IN
       /\ entry_results' = [entry_results EXCEPT ![n] = @ \cup {"StopIteration"}]
       /\ lottery_results' = Append(lottery_results, Entry(n, "Interrupted"))
    /\ RaiseStop
    /\ UNCHANGED <<runVars, pageVars, completed_lotteries, retry_attempt,
                   loopVars, verifyVars, finalVars, changed, pop_reloaded, reopened,
                   readAfterStop>>

\* After the entry was recorded: check_stop(), the popup handler, and on no
\* reload a second check_stop() before the index moves on. All run inside the
\* try block, so a StopIteration appends an Interrupted entry.
PopStopped ==
    /\ pc = "pop"
    /\ lottery_results' =
          Append(lottery_results, Entry(selected_lotteries[lottery_index], "Interrupted"))
    /\ RaiseStop
    /\ UNCHANGED <<runVars, pageVars, completed_lotteries, retry_attempt,
                   loopVars, verifyVars, finalVars, histVars>>

\* PopReloaded leaving the attempt counter as it is.
PopReloaded_NoIncrement ==
    /\ pc = "pop"
    /\ CanPass
    /\ reload_occurred' = TRUE
    /\ result' = "none"
    /\ pc' = "pass_end"
    /\ pop_reloaded' = TRUE
    /\ UNCHANGED <<runVars, pageVars, stopped, completed_lotteries, retry_attempt,
                   lottery_results, lottery_index, checked_count, verifyVars,
                   finalVars, changed, entry_results, reopened, readAfterStop>>

\* PopReloaded going on to the next item of the pass.
PopReloaded_GoesOn ==
    /\ pc = "pop"
    /\ CanPass
    /\ lottery_index' = lottery_index + 1
    /\ result' = "none"
    /\ pc' = "item"
    /\ pop_reloaded' = TRUE
    /\ UNCHANGED <<runVars, pageVars, stopped, completed_lotteries, retry_attempt,
                   lottery_results, reload_occurred, checked_count, verifyVars,
                   finalVars, changed, entry_results, reopened, readAfterStop>>

PopReloaded ==
    /\ pc = "pop"
    /\ CanPass
    /\ reload_occurred' = TRUE
    /\ retry_attempt' = retry_attempt + 1
    /\ result' = "none"
    /\ pc' = "pass_end"
    /\ pop_reloaded' = TRUE
    /\ UNCHANGED <<runVars, pageVars, stopped, completed_lotteries,
                   lottery_results, lottery_index, checked_count, verifyVars,
                   finalVars, changed, entry_results, reopened, readAfterStop>>

PopNoReload ==
    /\ pc = "pop"
    /\ CanPass
    /\ lottery_index' = lottery_index + 1
    /\ result' = "none"
    /\ pc' = "item"
    \* TRUE: swallowed in the navigation wait that follows a failed item
    /\ stopped' \in (IF result = "False" THEN BOOLEAN ELSE {FALSE})
    /\ UNCHANGED <<runVars, pageVars, completed_lotteries, lottery_results,
                   retry_attempt, checked_count, reload_occurred, verifyVars,
                   finalVars, histVars>>

\* The inner loop is over (all items visited, or a break after a reload).
PassEnd ==
    /\ \/ pc = "pass_end"
       \/ pc = "item" /\ lottery_index > Len(selected_lotteries)
    /\ IF reload_occurred \/ checked_count < Len(selected_lotteries)
       THEN /\ pc' = "pass_start"
            /\ UNCHANGED verifyVars
       ELSE /\ pc' = "reverify"
            /\ has_open_lotteries' = FALSE
            /\ verify_index' = 1
            /\ UNCHANGED all_verified
    /\ UNCHANGED <<runVars, pageVars, stopped, completed_lotteries,
                   lottery_results, retry_attempt, loopVars, finalVars, histVars>>

\* The three loops that read every selected item's status again. Each
\* iteration starts with a check_stop() outside any try block.
VerifyStopped ==
    /\ pc \in {"reverify", "verify", "final_verify"}
    /\ verify_index <= Len(selected_lotteries)
    /\ RaiseStop
    /\ UNCHANGED <<runVars, pageVars, completed_lotteries, lottery_results,
                   retry_attempt, loopVars, verifyVars, finalVars, histVars>>

\* Re-verification after a full pass: an item that reads Open is taken out of
\* completed_lotteries and its first Success entry becomes Failure.
\* Reverify leaving an item that reads Open in completed_lotteries.
Reverify_KeepsCompleted ==
    /\ pc = "reverify"
    /\ verify_index <= Len(selected_lotteries)
    /\ CanPass
    /\ LET n == selected_lotteries[verify_index] IN
       \E r \in StatusReads(n) :
          LET open == r.exists /\ r.text = "Open" IN
          /\ label' = [label EXCEPT ![n] = r.label]
          /\ anomalies' = r.anomalies
          /\ stopped' = r.stopped
          /\ changed' = (IF r.shown # label[n] THEN changed \cup {n} ELSE changed)
          /\ reopened' = (IF open THEN reopened \cup {n} ELSE reopened)
          /\ last_open' = LastOpen(n, r)
          /\ UNCHANGED sub_reloaded
          /\ has_open_lotteries' = (has_open_lotteries \/ open)
    /\ verify_index' = verify_index + 1
    /\ UNCHANGED <<pc, selected_lotteries, prev, popVars, authVars, passVars,
                   retry_attempt, loopVars, all_verified, completed_lotteries,
                   lottery_results,
                   finalVars, entry_results, pop_reloaded, readAfterStop>>

Reverify ==
    /\ pc = "reverify"
    /\ verify_index <= Len(selected_lotteries)
    /\ CanPass
    /\ LET n == selected_lotteries[verify_index] IN
       \E r \in StatusReads(n) :
          LET open == r.exists /\ r.text = "Open" IN
          /\ label' = [label EXCEPT ![n] = r.label]
          /\ anomalies' = r.anomalies
          /\ stopped' = r.stopped
          /\ changed' = (IF r.shown # label[n] THEN changed \cup {n} ELSE changed)
          /\ reopened' = (IF open THEN reopened \cup {n} ELSE reopened)
          /\ last_open' = LastOpen(n, r)
          /\ UNCHANGED sub_reloaded
          /\ has_open_lotteries' = (has_open_lotteries \/ open)
          /\ completed_lotteries' =
                IF open THEN completed_lotteries \ {n} ELSE completed_lotteries
          /\ lottery_results' =
                IF open /\ n \in completed_lotteries
                THEN DemoteAtReverify(lottery_results, n) ELSE lottery_results
    /\ verify_index' = verify_index + 1
    /\ UNCHANGED <<pc, selected_lotteries, prev, popVars, authVars, passVars,
                   retry_attempt, loopVars, all_verified,
                   finalVars, entry_results, pop_reloaded, readAfterStop>>

\* The final-status block: flags over lottery_results, final_status and
\* final_message; Success goes on to the final verification, anything else
\* leaves the retry loop.
Decide ==
    /\ final_status' = DetermineStatus(lottery_results)
    /\ final_message' = DetermineMessage(lottery_results)
    /\ IF DetermineStatus(lottery_results) = "Success"
       THEN /\ pc' = "final_verify"
            /\ verify_index' = 1
            /\ all_verified' = TRUE
       ELSE /\ pc' = "returned"
            /\ UNCHANGED <<verify_index, all_verified>>

\* ReverifyEnd going on to the verdict although an item was read as Open.
ReverifyEnd_IgnoresOpen ==
    /\ pc = "reverify"
    /\ verify_index > Len(selected_lotteries)
    /\ IF \A i \in 1..Len(selected_lotteries) :
             selected_lotteries[i] \in completed_lotteries
       THEN /\ pc' = "verify"
            /\ verify_index' = 1
            /\ all_verified' = TRUE
            /\ UNCHANGED <<retry_attempt, has_open_lotteries, finalVars>>
       ELSE /\ Decide
            /\ UNCHANGED <<retry_attempt, has_open_lotteries>>
    /\ UNCHANGED <<runVars, pageVars, stopped, completed_lotteries,
                   lottery_results, loopVars, histVars>>

ReverifyEnd ==
    /\ pc = "reverify"
    /\ verify_index > Len(selected_lotteries)
    /\ IF has_open_lotteries
       THEN /\ retry_attempt' = retry_attempt + 1
            /\ pc' = "pass_start"
            /\ UNCHANGED <<verifyVars, finalVars>>
       ELSE IF \A i \in 1..Len(selected_lotteries) :
                  selected_lotteries[i] \in completed_lotteries
       THEN /\ pc' = "verify"
            /\ verify_index' = 1
            /\ all_verified' = TRUE
            /\ UNCHANGED <<retry_attempt, has_open_lotteries, finalVars>>
       ELSE /\ Decide
            /\ UNCHANGED <<retry_attempt, has_open_lotteries>>
    /\ UNCHANGED <<runVars, pageVars, stopped, completed_lotteries,
                   lottery_results, loopVars, histVars>>

\* Verification when every selected item is in completed_lotteries: the loop
\* breaks at the first item that reads Open.
Verify ==
    /\ pc = "verify"
    /\ verify_index <= Len(selected_lotteries)
    /\ CanPass
    /\ LET n == selected_lotteries[verify_index] IN
       \E r \in StatusReads(n) :
          LET open == r.exists /\ r.text \notin {"Completed", "Closed"}
                      /\ r.text = "Open" IN
          /\ label' = [label EXCEPT ![n] = r.label]
          /\ anomalies' = r.anomalies
          /\ stopped' = r.stopped
          /\ changed' = (IF r.shown # label[n] THEN changed \cup {n} ELSE changed)
          /\ reopened' = (IF open THEN reopened \cup {n} ELSE reopened)
          /\ last_open' = LastOpen(n, r)
          /\ UNCHANGED sub_reloaded
          /\ all_verified' = ~open
          /\ verify_index' = IF open THEN Len(selected_lotteries) + 1
                             ELSE verify_index + 1
    /\ UNCHANGED <<pc, selected_lotteries, prev, popVars, authVars, passVars,
                   completed_lotteries, lottery_results,
                   retry_attempt, loopVars, has_open_lotteries, finalVars,
                   entry_results, pop_reloaded, readAfterStop>>

VerifyEnd ==
    /\ pc = "verify"
    /\ verify_index > Len(selected_lotteries)
    /\ IF all_verified
       THEN /\ final_status' = "Success"
            /\ final_message' = Message("Success", <<>>)
            /\ pc' = "returned"
            /\ UNCHANGED retry_attempt
       ELSE /\ retry_attempt' = retry_attempt + 1
            /\ pc' = "pass_start"
            /\ UNCHANGED finalVars
    /\ UNCHANGED <<runVars, pageVars, stopped, completed_lotteries,
                   lottery_results, loopVars, verifyVars, histVars>>

\* FinalVerify flipping the entry of an item that reads Open and leaving the
\* item in completed_lotteries.
FinalVerify_KeepsCompleted ==
    /\ pc = "final_verify"
    /\ verify_index <= Len(selected_lotteries)
    /\ CanPass
    /\ LET n == selected_lotteries[verify_index] IN
       \E r \in StatusReads(n) :
          LET open == r.exists /\ r.text = "Open" IN
          /\ label' = [label EXCEPT ![n] = r.label]
          /\ anomalies' = r.anomalies
          /\ stopped' = r.stopped
          /\ changed' = (IF r.shown # label[n] THEN changed \cup {n} ELSE changed)
          /\ reopened' = (IF open THEN reopened \cup {n} ELSE reopened)
          /\ last_open' = LastOpen(n, r)
          /\ UNCHANGED sub_reloaded
          /\ all_verified' = (all_verified /\ ~open)
          /\ completed_lotteries' = completed_lotteries
          /\ lottery_results' =
                IF open THEN DemoteAtFinal(lottery_results, n) ELSE lottery_results
    /\ verify_index' = verify_index + 1
    /\ UNCHANGED <<pc, selected_lotteries, prev, popVars, authVars, passVars,
                   retry_attempt, loopVars, has_open_lotteries,
                   finalVars, entry_results, pop_reloaded, readAfterStop>>

\* Final verification after a preliminary Success: every item is read; one
\* that reads Open leaves completed_lotteries and its first entry, if Success,
\* becomes Failure.
FinalVerify ==
    /\ pc = "final_verify"
    /\ verify_index <= Len(selected_lotteries)
    /\ CanPass
    /\ LET n == selected_lotteries[verify_index] IN
       \E r \in StatusReads(n) :
          LET open == r.exists /\ r.text = "Open" IN
          /\ label' = [label EXCEPT ![n] = r.label]
          /\ anomalies' = r.anomalies
          /\ stopped' = r.stopped
          /\ changed' = (IF r.shown # label[n] THEN changed \cup {n} ELSE changed)
          /\ reopened' = (IF open THEN reopened \cup {n} ELSE reopened)
          /\ last_open' = LastOpen(n, r)
          /\ UNCHANGED sub_reloaded
          /\ all_verified' = (all_verified /\ ~open)
          /\ completed_lotteries' =
                IF open THEN completed_lotteries \ {n} ELSE completed_lotteries
          /\ lottery_results' =
                IF open THEN DemoteAtFinal(lottery_results, n) ELSE lottery_results
    /\ verify_index' = verify_index + 1
    /\ UNCHANGED <<pc, selected_lotteries, prev, popVars, authVars, passVars,
                   retry_attempt, loopVars, has_open_lotteries,
                   finalVars, entry_results, pop_reloaded, readAfterStop>>

FinalVerifyEnd ==
    /\ pc = "final_verify"
    /\ verify_index > Len(selected_lotteries)
    /\ IF all_verified
       THEN /\ pc' = "returned"
            /\ UNCHANGED <<retry_attempt, finalVars>>
       ELSE IF retry_attempt < max_retry_attempts - 1
       THEN /\ retry_attempt' = retry_attempt + 1
            /\ pc' = "pass_start"
            /\ UNCHANGED finalVars
       ELSE /\ final_status' = "Failure"
            /\ final_message' = Message("StillOpenAtFinalCheck", <<>>)
            /\ pc' = "returned"
            /\ UNCHANGED retry_attempt
    /\ UNCHANGED <<runVars, pageVars, stopped, completed_lotteries,
                   lottery_results, loopVars, verifyVars, histVars>>

Next ==
    \/ LoginConfirmed \/ LoginRaises \/ LoginStopped
    \/ LoopExit \/ PassStart
    \/ ItemRaise \/ ItemSkipCompleted \/ ItemClassify
    \/ EntryReturns \/ EntryStopped
    \/ PopStopped \/ PopReloaded \/ PopNoReload
    \/ PassEnd
    \/ VerifyStopped \/ Reverify \/ ReverifyEnd
    \/ Verify \/ VerifyEnd
    \/ FinalVerify \/ FinalVerifyEnd

Spec == Init /\ [][Next]_vars

\* ------------------------------------------------ two rows of the workbook

\* load_data_from_excel: lottery_begin has returned for one row and is called
\* for the next row, another account with pages of its own. The module-level
\* selection stays; every local of lottery_begin starts afresh.
NextRow ==
    /\ Done
    /\ prev = NoRun
    /\ prev' = IF pc = "returned"
               THEN [statuses |-> StatusCount(lottery_results),
                     final_status |-> final_status]
               ELSE prev
    /\ pc' = "login"
    /\ label' \in [Range(selected_lotteries) -> RegularLabels]
    /\ anomalies' = AnomalyBudget
    /\ stopped' = FALSE
    /\ completed_lotteries' = {}
    /\ lottery_results' = <<>>
    /\ retry_attempt' = 0
    /\ lottery_index' = 1
    /\ checked_count' = 0
    /\ reload_occurred' = FALSE
    /\ result' = "none"
    /\ has_open_lotteries' = FALSE
    /\ all_verified' = TRUE
    /\ verify_index' = 1
    /\ final_status' = "Failure"
    /\ final_message' = Message("ProcessingError", <<>>)
    /\ changed' = {}
    /\ entry_results' = [n \in Range(selected_lotteries) |-> {}]
    /\ pop_reloaded' = FALSE
    /\ reopened' = {}
    /\ readAfterStop' = {}
    /\ passes' = 0
    /\ visit_log' = <<>>
    /\ last_open' = {}
    /\ sub_reloaded' = "none"
    /\ UNCHANGED <<selected_lotteries, popVars, authVars>>

\* Two rows of one item each, on pages that do not deviate; the second page is
\* a regular one.
InitRows ==
    \E i \in {j \in Inputs : Len(NormalizeSelected(j)) = 1} :
       LET sel == NormalizeSelected(i) IN
       \E lab \in [Range(sel) -> Labels] :
          /\ Start(sel, lab)
          /\ SolverIdle
          /\ LoginIdle
          /\ GmailIdle
          /\ EntryIdle
          /\ BookIdle
          /\ pc = "login"
          /\ anomalies = AnomalyBudget

NextRows == Next \/ NextRow

SpecRows == InitRows /\ [][NextRows]_vars

\* ---------------------------------------- _check_and_handle_pop_exceptions

\* What an overlay element can show when it is looked at: not displayed, the
\* recognised message of its class, another message, or a message element that
\* cannot be read.
OverlayStates == {"none", "recognised", "other", "unreadable"}

orchRest == <<selected_lotteries, prev, pageVars, completed_lotteries,
              lottery_results, retry_attempt, loopVars, verifyVars, finalVars,
              histVars, passVars, readVars>>
orchOnly == <<pc, orchRest>>
orchVars == <<orchOnly, authVars>>

\* check_stop(): TRUE = StopIteration is raised. Once the predicate has said
\* stop it keeps saying so.
StopChecks == IF stopped THEN {TRUE} ELSE {TRUE, FALSE}

\* A side effect on the browser, noted when a stop was observed before it.
Effect(e, st) == IF st THEN afterStop \cup {e} ELSE afterStop

\* CloseAndReturn that returns without going for the close control.
CloseAndReturn_NoClose(ret, st) ==
    /\ handler_ret' = ret
    /\ hpc' = "returned"
    /\ UNCHANGED <<close_attempted, afterStop>>

\* 'try: wait.until(clickable); click; except: pass' on the close control and
\* the return that follows it. The click happens unless the wait times out.
CloseAndReturn(ret, st) ==
    /\ close_attempted' = TRUE
    /\ \E clicked \in BOOLEAN :
          afterStop' = IF clicked THEN Effect("click", st) ELSE afterStop
    /\ handler_ret' = ret
    /\ hpc' = "returned"

Return_AlwaysFalse(ret) ==
    /\ handler_ret' = "False"
    /\ hpc' = "returned"
    /\ UNCHANGED <<close_attempted, afterStop>>

Return(ret) ==
    /\ handler_ret' = ret
    /\ hpc' = "returned"
    /\ UNCHANGED <<close_attempted, afterStop>>

\* The pop05 check that opens the handler.
HandlerStart ==
    /\ hpc = "start"
    /\ \E p5 \in OverlayStates, p4 \in OverlayStates :
          /\ pop05' = p5
          /\ pop04' = p4
          /\ \/ \* find_elements raises: the outermost 'except Exception'
                /\ Return("False")
                /\ checks' = <<"raised">>
                /\ UNCHANGED <<overlay, reload_attempt>>
             \/ /\ p5 = "none"
                /\ hpc' = "pop04_check"
                /\ checks' = <<p5>>
                /\ UNCHANGED <<overlay, reload_attempt, handler_ret, close_attempted,
                               afterStop>>
             \/ /\ p5 = "recognised"
                /\ overlay' = "pop05"
                /\ reload_attempt' = 0
                /\ hpc' = "loop"
                /\ checks' = <<p5>>
                /\ UNCHANGED <<handler_ret, close_attempted, afterStop>>
             \/ /\ p5 \in {"other", "unreadable"}
                /\ CloseAndReturn("False", stopped)
                /\ checks' = <<p5>>
                /\ UNCHANGED <<overlay, reload_attempt>>
    /\ UNCHANGED <<orchVars, stopped, reloads>>

\* The pop04 check, reached only when pop05 is not displayed.
HandlerPop04 ==
    /\ hpc = "pop04_check"
    /\ \E raise \in StopChecks :
          /\ stopped' = raise
          /\ IF raise
             THEN \* swallowed by the outermost 'except Exception'
                  /\ Return("False")
                  /\ UNCHANGED <<overlay, reload_attempt, checks>>
             ELSE /\ checks' = Append(checks, pop04)
                  /\ \/ /\ pop04 = "none"
                        /\ Return("False")
                        /\ UNCHANGED <<overlay, reload_attempt>>
                     \/ /\ pop04 = "recognised"
                        /\ overlay' = "pop04"
                        /\ reload_attempt' = 0
                        /\ hpc' = "loop"
                        /\ UNCHANGED <<handler_ret, close_attempted, afterStop>>
                     \/ /\ pop04 \in {"other", "unreadable"}
                        /\ CloseAndReturn("False", FALSE)
                        /\ UNCHANGED <<overlay, reload_attempt>>
    /\ UNCHANGED <<orchVars, pop05, pop04, reloads>>

\* 'while reload_attempt < max_reload_attempts: check_stop(); reload_attempt += 1'.
\* A StopIteration here goes to the 'except Exception' around the message
\* check, which goes for the close control and returns False.
ReloadLoop ==
    /\ hpc = "loop"
    /\ reload_attempt < max_reload_attempts
    /\ \E raise \in StopChecks :
          /\ stopped' = raise
          /\ IF raise
             THEN /\ CloseAndReturn("False", TRUE)
                  /\ UNCHANGED reload_attempt
             ELSE /\ reload_attempt' = reload_attempt + 1
                  /\ hpc' = "refresh"
                  /\ UNCHANGED <<handler_ret, close_attempted, afterStop>>
    /\ UNCHANGED <<orchVars, pop05, pop04, overlay, checks, reloads>>

\* One reload mechanism m followed by its check_stop()s, all under
\* 'except Exception': on any exception, StopIteration included, control goes
\* to the next mechanism; after the last one the attempt has failed.
Mechanism(m, next) ==
    /\ hpc = m
    /\ afterStop' = Effect(m, stopped)
    /\ \/ \* the mechanism raises
          /\ hpc' = next
          /\ UNCHANGED <<stopped, reloads>>
       \/ \E raise \in StopChecks :
             /\ stopped' = raise
             /\ hpc' = IF raise THEN next ELSE "after"
             /\ reloads' = IF raise THEN reloads ELSE reloads + 1
    /\ UNCHANGED <<orchVars, pop05, pop04, overlay, reload_attempt, handler_ret,
                   close_attempted, checks>>

ReloadRefresh == Mechanism("refresh", "get")
ReloadGet == Mechanism("get", "script")
ReloadScript == Mechanism("script", "failed")

\* reload_success is False: retry, or after the last attempt go for the close
\* control and return False.
ReloadFailed ==
    /\ hpc = "failed"
    /\ IF reload_attempt < max_reload_attempts
       THEN /\ hpc' = "loop"
            /\ UNCHANGED <<handler_ret, close_attempted, afterStop>>
       ELSE CloseAndReturn("False", stopped)
    /\ UNCHANGED <<orchVars, stopped, pop05, pop04, overlay, reload_attempt, checks,
                   reloads>>

\* reload_success is True: check_stop(), then the overlay is looked at again.
AfterReload ==
    /\ hpc = "after"
    /\ \E raise \in StopChecks :
          /\ stopped' = raise
          /\ IF raise
             THEN /\ CloseAndReturn("False", TRUE)
                  /\ UNCHANGED <<pop05, pop04, checks>>
             ELSE \E p \in OverlayStates :
                  /\ IF overlay = "pop05"
                     THEN pop05' = p /\ UNCHANGED pop04
                     ELSE pop04' = p /\ UNCHANGED pop05
                  /\ \/ \* find_elements raises: "assuming cleared"
                        /\ Return("True")
                        /\ checks' = Append(checks, "raised")
                     \/ /\ p = "none"
                        /\ Return("True")
                        /\ checks' = Append(checks, p)
                     \/ /\ p = "recognised"
                        /\ checks' = Append(checks, p)
                        /\ IF reload_attempt < max_reload_attempts
                           THEN /\ hpc' = "loop"
                                /\ UNCHANGED <<handler_ret, close_attempted, afterStop>>
                           ELSE CloseAndReturn("True", FALSE)
                     \/ /\ p \in {"other", "unreadable"}
                        /\ CloseAndReturn("True", FALSE)
                        /\ checks' = Append(checks, p)
    /\ UNCHANGED <<orchVars, overlay, reload_attempt, reloads>>

\* One call of the handler on its own.
InitPop ==
    /\ Start(<<1>>, [n \in {1} |-> "Open"])
    /\ SolverIdle
    /\ LoginIdle
    /\ GmailIdle
    /\ EntryIdle
    /\ BookIdle
    /\ pc = "handler"
    /\ anomalies = 0

NextPop ==
    \/ HandlerStart \/ HandlerPop04 \/ ReloadLoop
    \/ ReloadRefresh \/ ReloadGet \/ ReloadScript
    \/ ReloadFailed \/ AfterReload

SpecPop == InitPop /\ [][NextPop]_vars

\* ---------------------------------------------------------- solve_recaptcha

\* What the provider can answer to createTask: the request fails on the
\* network, a body that is not JSON, errorId # 0, no taskId, or a task id.
SubmitResponses == {"network_error", "unparseable", "error", "no_task_id", "task_id"}

\* What the provider can answer to getTaskResult: the request fails on the
\* network, a body that is not JSON, status processing, status ready with or
\* without a token, errorId # 0, or none of these.
PollResponses == {"network_error", "unparseable", "processing", "ready_token",
                  "ready_no_token", "error", "no_status"}

\* The answers the claims call malformed.
Malformed == {"unparseable", "no_task_id", "ready_no_token"}

solverLocals == <<attempt, poll, captcha_solution>>
solverHist == <<submitted, polled, poll_log, malformed, error_reported>>

\* A check_stop() raises StopIteration, which 'except StopIteration: raise'
\* passes on to the caller.
SolverStopped ==
    /\ stopped' = TRUE
    /\ spc' = "stopped"
    /\ UNCHANGED solverLocals

\* An exception leaves solve_recaptcha.
SolverRaises ==
    /\ spc' = "failed"
    /\ UNCHANGED <<stopped, solverLocals>>

\* RetryOrRaise without the test of the attempt number.
RetryOrRaise_NoCap ==
    \/ SolverStopped
    \/ /\ spc' = "attempt"
       /\ attempt' = attempt + 1
       /\ UNCHANGED <<stopped, poll, captcha_solution>>

\* 'if attempt < max_retries: for _ in range(3): check_stop(); continue (or
\* break)  else: raise': the next attempt of the outer loop, unless one of the
\* three check_stop() raises.
RetryOrRaise ==
    IF attempt < max_retries
    THEN \/ SolverStopped
         \/ /\ spc' = "attempt"
            /\ attempt' = attempt + 1
            /\ UNCHANGED <<stopped, poll, captcha_solution>>
    ELSE SolverRaises

\* 'raise Exception(f"...{answer}")' inside the try: 'except Exception' retries
\* when attempt < max_retries and the text of the exception, which quotes the
\* answer, holds "2captcha error" or "timeout" (kw); otherwise it re-raises.
RaiseQuoting(kw) ==
    IF kw THEN RetryOrRaise ELSE SolverRaises

\* The call of solve_recaptcha is over.
SolverDone == spc \in {"returned", "failed", "stopped"}

\* The validation that opens solve_recaptcha, and the entry into the loop.
SolveEntry ==
    /\ spc = "entry"
    /\ IF CAPTCHA_API_KEY = "" \/ site_key # "valid"
       THEN SolverRaises
       ELSE /\ spc' = "attempt"
            /\ attempt' = 1
            /\ UNCHANGED <<stopped, poll, captcha_solution>>
    /\ UNCHANGED <<orchOnly, popVars, loginVars, gmailVars, entryVars, bookVars,
                   CAPTCHA_API_KEY, site_key, solverHist>>

\* One attempt up to the answer to its submission.
SolveSubmit ==
    /\ spc = "attempt"
    /\ \/ /\ SolverStopped
          /\ UNCHANGED solverHist
       \/ /\ ~stopped
          /\ submitted' = submitted + 1
          /\ polled' = 0
          /\ poll_log' = <<>>
          /\ error_reported' = FALSE
          /\ \E r \in SubmitResponses, kw \in BOOLEAN :
                /\ malformed' = IF r \in Malformed /\ malformed = "none"
                                THEN "submission" ELSE malformed
                /\ CASE r = "network_error" -> RetryOrRaise
                     [] r = "unparseable" -> RaiseQuoting(kw)
                     [] r = "error" -> RetryOrRaise
                     [] r = "no_task_id" -> RaiseQuoting(kw)
                     [] r = "task_id" ->
                           /\ spc' = "poll"
                           /\ poll' = 0
                           /\ UNCHANGED <<stopped, attempt, captcha_solution>>
    /\ UNCHANGED <<orchOnly, popVars, loginVars, gmailVars, entryVars, bookVars,
                   CAPTCHA_API_KEY, site_key>>

\* The log of answers of the current task with one more answer.
Logged(r) == IF Len(poll_log) < MaxLog THEN Append(poll_log, r) ELSE poll_log

\* PollOutcome taking a ready answer with a token for one still in progress.
PollOutcome_ReadyGoesOn(r) ==
    CASE r \in {"network_error", "unparseable", "processing", "no_status",
                "ready_token"} -> "continue"
      [] r = "ready_no_token" -> "raise"
      [] r = "error" -> "retry"

\* PollOutcome going on with the polls of a task after a provider error.
PollOutcome_ErrorGoesOn(r) ==
    CASE r \in {"network_error", "unparseable", "processing", "no_status",
                "error"} -> "continue"
      [] r = "ready_token" -> "return"
      [] r = "ready_no_token" -> "raise"

\* What the answer to a poll leads to: the next poll ('continue', or the end
\* of the loop body), the return of the token, an exception that quotes the
\* answer, or the end of the attempt.
PollOutcome(r) ==
    CASE r \in {"network_error", "unparseable", "processing", "no_status"} -> "continue"
      [] r = "ready_token" -> "return"
      [] r = "ready_no_token" -> "raise"
      [] r = "error" -> "retry"

\* One round of 'for i in range(60)': the two check_stop(), the poll and what
\* its answer leads to.
SolvePoll ==
    /\ spc = "poll"
    /\ poll < poll_limit
    /\ \/ /\ SolverStopped
          /\ UNCHANGED solverHist
       \/ /\ ~stopped
          /\ polled' = polled + 1
          /\ UNCHANGED submitted
          /\ \E r \in PollResponses, kw \in BOOLEAN :
                /\ poll_log' = Logged(r)
                /\ error_reported' = (r = "error")
                /\ malformed' = IF r \in Malformed /\ malformed = "none"
                                THEN "poll" ELSE malformed
                /\ CASE PollOutcome(r) = "continue" ->
                           /\ poll' = poll + 1
                           /\ UNCHANGED <<stopped, spc, attempt, captcha_solution>>
                     [] PollOutcome(r) = "return" ->
                           /\ captcha_solution' = "token"
                           /\ spc' = "returned"
                           /\ UNCHANGED <<stopped, attempt, poll>>
                     [] PollOutcome(r) = "raise" -> RaiseQuoting(kw)
                     [] PollOutcome(r) = "retry" -> RetryOrRaise
    /\ UNCHANGED <<orchOnly, popVars, loginVars, gmailVars, entryVars, bookVars,
                   CAPTCHA_API_KEY, site_key>>

\* The 'else' of the poll loop: sixty polls without an end.
SolveTimeout ==
    /\ spc = "poll"
    /\ poll = poll_limit
    /\ RetryOrRaise
    /\ UNCHANGED <<orchOnly, popVars, loginVars, gmailVars, entryVars, bookVars,
                   CAPTCHA_API_KEY, site_key, solverHist>>

\* One call of solve_recaptcha on its own.
InitCaptcha ==
    /\ Start(<<1>>, [n \in {1} |-> "Open"])
    /\ pc = "solver"
    /\ anomalies = 0
    /\ spc = "entry"
    /\ CAPTCHA_API_KEY \in {"", "key"}
    /\ site_key \in {"none", "short", "valid"}
    /\ attempt = 0
    /\ poll = 0
    /\ captcha_solution = "none"
    /\ submitted = 0
    /\ polled = 0
    /\ poll_log = <<>>
    /\ malformed = "none"
    /\ error_reported = FALSE
    /\ LoginIdle
    /\ GmailIdle
    /\ EntryIdle
    /\ BookIdle

NextCaptcha == SolveEntry \/ SolveSubmit \/ SolvePoll \/ SolveTimeout

SpecCaptcha == InitCaptcha /\ [][NextCaptcha]_vars

\* ------------------------------------------- lottery_begin: the login loop

\* StopIteration reaches 'except StopIteration' of lottery_begin.
LoginInterrupted ==
    /\ stopped' = TRUE
    /\ pc' = "interrupted"
    /\ lpc' = "done"

\* An exception reaches 'except Exception' of lottery_begin.
LoginFails ==
    /\ pc' = "login_failed"
    /\ lpc' = "done"

\* RetryLogin going on to another attempt whatever the attempt number.
RetryLogin_NoCap ==
    /\ failed_attempts' = failed_attempts + 1
    /\ lpc' = "loop"
    /\ UNCHANGED pc

\* The attempt has ended without authentication: 'if attempt <
\* max_login_attempts: continue  else: raise Exception(...)'.
RetryLogin ==
    /\ failed_attempts' = failed_attempts + 1
    /\ IF login_attempt < max_login_attempts
       THEN lpc' = "loop" /\ UNCHANGED pc
       ELSE LoginFails

\* solve_recaptcha is called: its locals and what is recorded of it start anew.
SolverCalled ==
    /\ spc' = "entry"
    /\ attempt' = 0
    /\ poll' = 0
    /\ captcha_solution' = "none"
    /\ submitted' = 0
    /\ polled' = 0
    /\ poll_log' = <<>>
    /\ malformed' = "none"
    /\ error_reported' = FALSE

\* An attempt in which solve_recaptcha is not called.
SolverNotCalled ==
    /\ spc' = "idle"
    /\ attempt' = 0
    /\ poll' = 0
    /\ captcha_solution' = "none"
    /\ submitted' = 0
    /\ polled' = 0
    /\ poll_log' = <<>>
    /\ malformed' = "none"
    /\ error_reported' = FALSE

\* The pages of the login: the login page, the passcode page ('login-mfa'),
\* any other page; check_login_status_message returns no message, the message
\* '認証に失敗しました。' (is_failure) or another message.
Urls == {"login", "mfa", "other"}
Messages == {"none", "failure", "other"}

\* The session comes to a page.
LandsOn(u, m, p) ==
    /\ current_url' = u
    /\ status_message' = m
    /\ passcode_shown' = p

\* One round of 'for attempt in range(1, max_login_attempts + 1)' up to the
\* CAPTCHA step of _attempt_login_with_captcha: the page is opened, the site
\* key is looked up and the credentials are typed. An exception on the way
\* makes the attempt return (False, False).
LoginAttempt ==
    /\ lpc = "loop"
    /\ login_attempt < max_login_attempts
    /\ \/ /\ LoginInterrupted
          /\ UNCHANGED <<login_attempt, form_submitted, solverVars, loginPage,
                         attempt_otp_calls>>
       \/ /\ ~stopped
          /\ login_attempt' = login_attempt + 1
          /\ form_submitted' = FALSE
          /\ attempt_otp_calls' = 0
          /\ \E k \in {"none", "short", "valid"} :
                /\ site_key' = k
                /\ \/ /\ lpc' = "undecided"
                      /\ SolverNotCalled
                      /\ \E u \in Urls, m \in Messages, p \in BOOLEAN :
                            LandsOn(u, m, p)
                   \/ /\ k = "none"
                      /\ lpc' = "click"
                      /\ SolverNotCalled
                      /\ LandsOn("login", "none", FALSE)
                   \/ /\ k # "none"
                      /\ lpc' = "captcha"
                      /\ SolverCalled
                      /\ LandsOn("login", "none", FALSE)
          /\ UNCHANGED <<pc, stopped, CAPTCHA_API_KEY>>
    /\ UNCHANGED <<orchRest, popVars, gmailVars, entryVars, bookVars,
                   postVars, otp_retry, failed_attempts, otp_calls>>

\* solve_recaptcha from call to end, as its caller sees it: it raises at once
\* without an API key or a site key of twenty characters, and otherwise ends
\* with a token, with an exception or with StopIteration.
SolveSummary ==
    /\ lpc = "captcha"
    /\ spc = "entry"
    /\ IF CAPTCHA_API_KEY = "" \/ site_key # "valid"
       THEN SolverRaises
       ELSE \/ SolverRaises
            \/ SolverStopped
            \/ /\ spc' = "returned"
               /\ captcha_solution' = "token"
               /\ UNCHANGED <<stopped, attempt, poll>>
    /\ UNCHANGED <<orchOnly, popVars, loginVars, gmailVars, entryVars, bookVars,
                   CAPTCHA_API_KEY, site_key, solverHist>>

\* solve_recaptcha has ended: StopIteration is passed on; any other exception
\* is logged and the attempt goes on to the login button; so it does with the
\* token, whether the injection worked or not.
CaptchaStep ==
    /\ lpc = "captcha"
    /\ SolverDone
    /\ IF spc = "stopped"
       THEN /\ pc' = "interrupted"
            /\ lpc' = "done"
       ELSE /\ lpc' = "click"
            /\ UNCHANGED pc
    /\ UNCHANGED <<orchRest, popVars, gmailVars, entryVars, bookVars,
                   postVars, stopped, solverVars, login_attempt, otp_retry,
                   failed_attempts, form_submitted, loginPage, otpHist>>

\* What _attempt_login_with_captcha returns after the click, as lottery_begin
\* reads it: success, needs_retry, or neither.
AttemptResults == {"success", "needs_retry", "undecided"}

\* The page read after the click, as _attempt_login_with_captcha returns it:
\* the failure message first, then the passcode page or the passcode prompt,
\* then a page other than the login page.
PageResult_UrlFirst(u, m, p) ==
    IF u = "other" /\ ~p THEN "success"
    ELSE IF m = "failure" THEN "needs_retry"
    ELSE "undecided"

PageResult(u, m, p) ==
    IF m = "failure" THEN "needs_retry"
    ELSE IF u = "mfa" THEN "undecided"
    ELSE IF p THEN "undecided"
    ELSE IF u # "login" THEN "success"
    ELSE "undecided"

\* The rest of _attempt_login_with_captcha and the first dispatch on its
\* result in lottery_begin: check_stop(), the login button is waited for and
\* clicked, eight check_stop() while the page answers, then the page is read.
LoginClick ==
    /\ lpc = "click"
    /\ \/ \* check_stop() before the click raises
          /\ LoginInterrupted
          /\ UNCHANGED <<failed_attempts, form_submitted, loginPage>>
       \/ \* the button does not become clickable: (False, False)
          /\ ~stopped
          /\ lpc' = "undecided"
          /\ UNCHANGED <<pc, stopped, failed_attempts, form_submitted, loginPage>>
       \/ \* check_stop() raises while the page answers
          /\ ~stopped
          /\ form_submitted' = TRUE
          /\ LoginInterrupted
          /\ UNCHANGED <<failed_attempts, loginPage>>
       \/ /\ ~stopped
          /\ form_submitted' = TRUE
          /\ UNCHANGED stopped
          /\ \E u \in Urls, m \in Messages, p \in BOOLEAN :
                /\ LandsOn(u, m, p)
                /\ CASE PageResult(u, m, p) = "success" ->
                           /\ lpc' = "verify"
                           /\ UNCHANGED <<pc, failed_attempts>>
                     [] PageResult(u, m, p) = "needs_retry" -> RetryLogin
                     [] PageResult(u, m, p) = "undecided" ->
                           /\ lpc' = "undecided"
                           /\ UNCHANGED <<pc, failed_attempts>>
    /\ UNCHANGED <<orchRest, popVars, gmailVars, entryVars, bookVars,
                   postVars, solverVars, login_attempt, otp_retry, otpHist>>

\* 'else' of the dispatch: check_stop(), then either the page asks for a
\* passcode and the OTP loop starts, or it does not: still on the login page
\* the attempt has failed, away from it the login is taken as successful.
LoginUndecided ==
    /\ lpc = "undecided"
    /\ \/ /\ LoginInterrupted
          /\ UNCHANGED <<otp_retry, failed_attempts>>
       \/ /\ ~stopped
          /\ UNCHANGED stopped
          /\ IF current_url = "mfa" \/ passcode_shown
             THEN /\ lpc' = "otp"
                  /\ otp_retry' = 1
                  /\ UNCHANGED <<pc, failed_attempts>>
             ELSE IF current_url = "login"
             THEN /\ RetryLogin
                  /\ UNCHANGED otp_retry
             ELSE /\ lpc' = "verify"
                  /\ UNCHANGED <<pc, otp_retry, failed_attempts>>
    /\ UNCHANGED <<orchRest, popVars, gmailVars, entryVars, bookVars,
                   postVars, solverVars, login_attempt, form_submitted,
                   loginPage, otpHist>>

\* A round of the OTP loop has failed: 'continue' if rounds are left, 'break'
\* if not.
NextRound_NoCap ==
    /\ otp_retry' = otp_retry + 1
    /\ UNCHANGED lpc

NextRound ==
    IF otp_retry < max_otp_retries
    THEN /\ otp_retry' = otp_retry + 1
         /\ UNCHANGED lpc
    ELSE /\ lpc' = "otp_failed"
         /\ UNCHANGED otp_retry

\* One round of 'for otp_retry in range(1, max_otp_retries + 1)':
\* check_stop(), get_otp_from_gmail() is called once, the passcode is typed and
\* submitted and the page is read. The round ends the loop with otp_success
\* when the page is neither the passcode page nor the login page and shows no
\* failure message; otherwise it has failed.
OtpRound ==
    /\ lpc = "otp"
    /\ \/ \* check_stop() before the call raises
          /\ LoginInterrupted
          /\ UNCHANGED <<otp_retry, loginPage, otpHist>>
       \/ /\ ~stopped
          /\ otp_calls' = otp_calls + 1
          /\ attempt_otp_calls' = attempt_otp_calls + 1
          /\ \/ \* StopIteration inside get_otp_from_gmail or later in the round
                /\ LoginInterrupted
                /\ UNCHANGED <<otp_retry, loginPage>>
             \/ \* no passcode, or it could not be typed or submitted
                /\ NextRound
                /\ UNCHANGED <<pc, stopped, loginPage>>
             \/ \* submitted: the page answers
                /\ UNCHANGED <<pc, stopped>>
                /\ \E u \in Urls, m \in Messages, p \in BOOLEAN :
                      /\ LandsOn(u, m, p)
                      /\ IF m # "failure" /\ u = "other"
                         THEN /\ lpc' = "otp_ok"
                              /\ UNCHANGED otp_retry
                         ELSE NextRound
    /\ UNCHANGED <<orchRest, popVars, gmailVars, entryVars, bookVars,
                   postVars, solverVars, login_attempt, failed_attempts,
                   form_submitted>>

\* After the OTP loop: with otp_success, or on a page that is neither the
\* login page nor the passcode page, the login is taken as successful;
\* otherwise the attempt has failed.
OtpDone ==
    /\ lpc \in {"otp_ok", "otp_failed"}
    /\ IF lpc = "otp_ok" \/ current_url = "other"
       THEN /\ lpc' = "verify"
            /\ UNCHANGED <<pc, failed_attempts>>
       ELSE RetryLogin
    /\ UNCHANGED <<orchRest, popVars, gmailVars, entryVars, bookVars,
                   postVars, stopped, solverVars, login_attempt, otp_retry,
                   form_submitted, loginPage, otpHist>>

\* The final verification looking at the address only.
FinalVerification_UrlOnly ==
    /\ lpc = "verify"
    /\ IF current_url \in {"login", "mfa"}
       THEN LoginFails
       ELSE /\ lpc' = "post_login"
            /\ UNCHANGED pc
    /\ UNCHANGED <<orchRest, popVars, gmailVars, entryVars, bookVars,
                   postVars, stopped, solverVars, login_attempt, otp_retry,
                   failed_attempts, form_submitted, loginPage, otpHist>>

\* The final verification after the loop: on the login or passcode page, or
\* with a failure message, it raises.
FinalVerification ==
    /\ lpc = "verify"
    /\ IF current_url \in {"login", "mfa"} \/ status_message = "failure"
       THEN LoginFails
       ELSE /\ lpc' = "post_login"
            /\ UNCHANGED pc
    /\ UNCHANGED <<orchRest, popVars, gmailVars, entryVars, bookVars,
                   postVars, stopped, solverVars, login_attempt, otp_retry,
                   failed_attempts, form_submitted, loginPage, otpHist>>

\* From the confirmed login to the pop04 loop: the apply page is opened if the
\* session is not on it, with check_stop() on the way.
PostLogin ==
    /\ lpc = "post_login"
    /\ \/ LoginInterrupted
       \/ /\ ~stopped
          /\ LoginFails
          /\ UNCHANGED stopped
       \/ /\ ~stopped
          /\ lpc' = "post_loop"
          /\ UNCHANGED <<pc, stopped>>
    /\ post_reload_attempt' = 0
    /\ UNCHANGED <<orchRest, popVars, gmailVars, entryVars, bookVars,
                   solverVars, login_attempt, otp_retry,
                   failed_attempts, form_submitted, loginPage, otpHist, post_reloads>>

\* What one round of the pop04 loop finds: no pop04 (or an error while looking
\* for it), a pop04 without the fatal-exception text, or one with it.
PostOverlays == {"none", "normal", "exception"}

\* 'continue' while reload_attempt < max_reload_attempts, else 'break'.
PostNext ==
    lpc' = IF post_reload_attempt + 1 < max_reload_attempts_after_login
           THEN "post_loop" ELSE "post_done"

\* One round of 'while reload_attempt < max_reload_attempts': check_stop(),
\* reload_attempt += 1, and inside 'try ... except Exception: break' the pop04
\* is looked at; with the fatal-exception text the page is reloaded by the
\* first mechanism that works and looked at again.
PostLoopRound ==
    /\ lpc = "post_loop"
    /\ post_reload_attempt < max_reload_attempts_after_login
    /\ \/ /\ LoginInterrupted
          /\ UNCHANGED postVars
       \/ /\ ~stopped
          /\ post_reload_attempt' = post_reload_attempt + 1
          /\ UNCHANGED pc
          /\ \/ \* a check_stop() inside the try raises: 'except Exception: break'
                /\ stopped' = TRUE
                /\ lpc' = "post_done"
                /\ UNCHANGED post_reloads
             \/ /\ UNCHANGED stopped
                /\ \E o \in PostOverlays :
                      IF o # "exception"
                      THEN /\ lpc' = "post_done"
                           /\ UNCHANGED post_reloads
                      ELSE \/ \* every mechanism fails
                              /\ PostNext
                              /\ UNCHANGED post_reloads
                           \/ \* reloaded, the overlay is still there
                              /\ post_reloads' = post_reloads + 1
                              /\ PostNext
                           \/ \* reloaded, the overlay is gone
                              /\ post_reloads' = post_reloads + 1
                              /\ lpc' = "post_done"
    /\ UNCHANGED <<orchRest, popVars, gmailVars, entryVars, bookVars,
                   solverVars, login_attempt, otp_retry,
                   failed_attempts, form_submitted, loginPage, otpHist>>

\* After the loop: check_stop(), the last look at pop04, the apply page is
\* opened if need be, check_stop(), and _process_all_lotteries is called.
StartLottery ==
    /\ lpc = "post_done"
    /\ \/ LoginInterrupted
       \/ /\ ~stopped
          /\ pc' = "pass_start"
          /\ lpc' = "done"
          /\ UNCHANGED stopped
    /\ UNCHANGED <<orchRest, popVars, gmailVars, entryVars, bookVars,
                   solverVars, login_attempt, otp_retry,
                   failed_attempts, form_submitted, loginPage, otpHist, postVars>>

\* lottery_begin from its first line to the call of the orchestrator.
InitLogin ==
    \E i \in Inputs :
       LET sel == NormalizeSelected(i) IN
       \E lab \in [Range(sel) -> {"Open"}] :
          /\ Start(sel, lab)
          /\ pc = "login"
          /\ anomalies = 0
          /\ spc = "idle"
          /\ CAPTCHA_API_KEY \in {"", "key"}
          /\ site_key = "none"
          /\ attempt = 0
          /\ poll = 0
          /\ captcha_solution = "none"
          /\ submitted = 0
          /\ polled = 0
          /\ poll_log = <<>>
          /\ malformed = "none"
          /\ error_reported = FALSE
          /\ lpc = "loop"
          /\ login_attempt = 0
          /\ otp_retry = 0
          /\ failed_attempts = 0
          /\ form_submitted = FALSE
          /\ current_url = "login"
          /\ status_message = "none"
          /\ passcode_shown = FALSE
          /\ otp_calls = 0
          /\ attempt_otp_calls = 0
          /\ post_reload_attempt = 0
          /\ post_reloads = 0
          /\ GmailIdle
          /\ EntryIdle
          /\ BookIdle

NextLogin ==
    \/ LoginAttempt \/ CaptchaStep \/ LoginClick \/ LoginUndecided
    \/ OtpRound \/ OtpDone \/ FinalVerification \/ PostLogin
    \/ PostLoopRound \/ StartLottery
    \/ SolveSummary

SpecLogin == InitLogin /\ [][NextLogin]_vars

\* ================================================================= claims

EntriesOf(n) == {i \in 1..Len(lottery_results) : lottery_results[i].lottery = n}

\* C1: when the orchestrator returns, the results list holds exactly one entry
\* per targeted item number: none twice, none missing.
C1_OneEntryPerItem ==
    pc = "returned" =>
        /\ \A n \in Range(selected_lotteries) : Cardinality(EntriesOf(n)) = 1
        /\ Len(lottery_results) = Len(selected_lotteries)

\* C2: the final status the orchestrator returns follows the verdict rule over
\* the recorded results: Interrupted if any entry is Interrupted; otherwise
\* Failure if any entry is Failure, SkippedClosed or NotExist; Success only if
\* every entry is Success or SkippedCompleted.
C2_VerdictRule ==
    pc = "returned" =>
        /\ "Interrupted" \in Statuses(lottery_results) => final_status = "Interrupted"
        /\ ( /\ "Interrupted" \notin Statuses(lottery_results)
             /\ Statuses(lottery_results) \cap {"Failure", "SkippedClosed", "NotExist"} # {} )
           => final_status = "Failure"
        /\ final_status = "Success" =>
              Statuses(lottery_results) \subseteq {"Success", "SkippedCompleted"}

\* C3: two batch runs that return the same multiset of result statuses return
\* the same final status.
C3_SameStatusesSameVerdict ==
    ( /\ pc = "returned"
      /\ prev # NoRun
      /\ StatusCount(lottery_results) = prev.statuses )
    => final_status = prev.final_status

\* C4: once a check_stop() of lottery_begin has observed the stop signal, the
\* outcome lottery_begin returns has final status Interrupted.
C4_StopGivesInterrupted ==
    (Done /\ stopped) => SessionOutcome.final_status = "Interrupted"

\* C5: after a check_stop() has observed the stop signal no side effect is
\* performed: no reload mechanism runs and no control is clicked.
C5_NoSideEffectAfterStop == afterStop = {}

\* C6: when the stop is observed while item 2 of [1, 2, 3] is being processed,
\* the outcome handed to the caller holds an Interrupted entry for item 2, has
\* final status Interrupted, and item 3 is not attempted.
C6_InterruptedEntryReturned ==
    ( /\ pc = "interrupted"
      /\ selected_lotteries = <<1, 2, 3>>
      /\ lottery_results # <<>>
      /\ lottery_results[Len(lottery_results)] = Entry(2, "Interrupted") )
    => /\ \E i \in 1..Len(SessionOutcome.results) :
             SessionOutcome.results[i] = Entry(2, "Interrupted")
       /\ SessionOutcome.final_status = "Interrupted"
       /\ entry_results[3] = {}

\* The scenario of C7: items [1, 2, 3]; item 2 reads Closed and item 3 reads
\* Completed at every read; item 1 was open, every submission of it succeeded
\* and the popup handler never reported a reload.
C7_Scenario ==
    /\ selected_lotteries = <<1, 2, 3>>
    /\ label[2] = "Closed" /\ 2 \notin changed
    /\ label[3] = "Completed" /\ 3 \notin changed
    /\ entry_results[1] = {"True"}
    /\ ~pop_reloaded

C7_Results == <<Entry(1, "Success"), Entry(2, "SkippedClosed"), Entry(3, "SkippedCompleted")>>

C7_Returned ==
    /\ lottery_results = C7_Results
    /\ final_status = "Failure"
    /\ final_message = Message("FailurePrefix",
                               <<Phrase(C7_Results[1]), Phrase(C7_Results[2]),
                                 Phrase(C7_Results[3])>>)

\* C7 (amended): in the scenario, if moreover no verification loop reads item 1
\* as Open after its submission, the batch returns [Success(1),
\* SkippedClosed(2), SkippedCompleted(3)], Failure, and a message with one
\* phrase for each of the three items.
C7_ScenarioResult ==
    (pc = "returned" /\ C7_Scenario /\ 1 \notin reopened) => C7_Returned

C7_Witness ==
    pc = "returned" /\ C7_Scenario /\ 1 \notin reopened /\ label[1] = "Completed"

\* C7 as stated: in the scenario the batch returns the three entries. Entries
\* are never removed and a Failure never becomes a Success again, so once the
\* first pass has recorded them the list must stay the stated one.
C7_AsStated ==
    (C7_Scenario /\ Len(lottery_results) >= 3) =>
        /\ lottery_results = C7_Results
        /\ pc = "returned" => C7_Returned

\* C8: if every targeted item reads Completed at every read, the batch returns
\* Success with the fixed message, and no submission sub-flow is run.
C8_AllCompleted ==
    ( /\ pc = "returned"
      /\ changed = {}
      /\ \A n \in Range(selected_lotteries) : label[n] = "Completed" )
    => /\ final_status = "Success"
       /\ final_message = Message("Success", <<>>)
       /\ \A n \in Range(selected_lotteries) : entry_results[n] = {}

C8_Witness ==
    /\ pc = "returned"
    /\ changed = {}
    /\ Len(selected_lotteries) = 3
    /\ \A n \in Range(selected_lotteries) : label[n] = "Completed"
    /\ final_status = "Success"

\* C9: if one targeted item reads Closed at every read and the submission of
\* every other targeted item succeeds, the batch returns Failure, whatever
\* reloads or extra passes happen.
C9_ClosedVetoes ==
    ( /\ pc = "returned"
      /\ \E n \in Range(selected_lotteries) :
            /\ label[n] = "Closed" /\ n \notin changed
            /\ \A m \in Range(selected_lotteries) \ {n} :
                  "True" \in entry_results[m] /\ "False" \notin entry_results[m] )
    => final_status = "Failure"

C9_Witness ==
    /\ pc = "returned"
    /\ retry_attempt > 0
    /\ pop_reloaded
    /\ \E n \in Range(selected_lotteries) :
          /\ label[n] = "Closed" /\ n \notin changed
          /\ Range(selected_lotteries) # {n}
          /\ \A m \in Range(selected_lotteries) \ {n} :
                "True" \in entry_results[m] /\ "False" \notin entry_results[m]

C11_FailureMessage ==
    (pc = "returned" /\ final_status = "Failure") =>
        final_message = Message("FailurePrefix", DetailParts(lottery_results))

\* C12: the login loop makes at most three attempts; when the third attempt has
\* ended without authentication (explicit failure, ambiguous page or failed
\* passcode), lottery_begin returns Failure with an empty results list, and the
\* orchestrator has not run: no status was read, no item submitted, no entry
\* recorded.
C12_LoginExhaustion ==
    /\ login_attempt <= max_login_attempts
    /\ failed_attempts <= max_login_attempts
    /\ (failed_attempts = max_login_attempts => pc = "login_failed")
    /\ (pc = "login_failed" =>
          /\ SessionOutcome.final_status = "Failure"
          /\ SessionOutcome.results = <<>>
          /\ lottery_results = <<>>
          /\ retry_attempt = 0
          /\ changed = {}
          /\ reopened = {}
          /\ \A n \in Range(selected_lotteries) : entry_results[n] = {})

C12_Witness ==
    /\ pc = "login_failed"
    /\ failed_attempts = max_login_attempts
    /\ otp_retry = max_otp_retries
    /\ selected_lotteries # <<>>

\* The first task of the call was answered processing, processing, ready with
\* a token.
C13_Scenario ==
    /\ attempt = 1
    /\ poll_log = <<"processing", "processing", "ready_token">>

\* C13: when the polls of the one submitted task are answered processing,
\* processing, ready(T), solve_recaptcha returns T with exactly one task
\* submitted and exactly three polls of the result endpoint, the third being
\* the one that brings the token.
C13_ThreePolls ==
    C13_Scenario =>
        /\ spc = "returned"
        /\ captcha_solution = "token"
        /\ submitted = 1
        /\ polled = 3

C13_Witness == C13_Scenario /\ spc = "returned" /\ polled = 3

\* C13 as stated: the token is returned after exactly two polls.
C13_AsStated ==
    C13_Scenario =>
        /\ spc = "returned"
        /\ captcha_solution = "token"
        /\ submitted = 1
        /\ polled = 2

\* The position of a call in the two loops, growing with every step.
Rank == attempt * (poll_limit + 2) + (IF spc = "poll" THEN poll + 1 ELSE 0)

\* C14: one call submits at most max_retries tasks and polls at most sixty
\* times per task, whatever the provider answers; every step of the call moves
\* on in the two loops or ends the call, and the call is over with an error,
\* not a value, once the last attempt has failed.
C14_Bounded ==
    /\ [](/\ submitted <= max_retries
          /\ attempt <= max_retries
          /\ polled <= poll_limit
          /\ poll <= poll_limit
          /\ (spc = "failed" => captcha_solution = "none"))
    /\ [][SolverDone' \/ Rank' > Rank]_vars

C14_Witness ==
    /\ spc = "failed"
    /\ submitted = max_retries
    /\ polled = poll_limit

\* C15: once an answer was malformed (a body that cannot be parsed, no task
\* id, ready without a token), the call polls no more and submits no more; and
\* without an API key nothing is submitted or polled at all.
C15_MalformedIsFatal ==
    /\ [](CAPTCHA_API_KEY = "" => submitted = 0 /\ polled = 0 /\ spc \in {"entry", "failed"})
    /\ [][malformed # "none" => UNCHANGED <<submitted, polled>>]_vars

\* C16: in a login attempt whose call of solve_recaptcha has failed, the login
\* form is not submitted.
C16_NoSubmitWithoutToken == ~(spc = "failed" /\ form_submitted)

\* pop05 was not displayed; pop04 showed the fatal-exception text at the first
\* check and after the first reload, and was gone after the second reload.
C17_Scenario ==
    /\ overlay = "pop04"
    /\ checks = <<"none", "recognised", "recognised", "none">>

\* C17: with the fatal-exception overlay seen at the first check and after the
\* first reload and gone after the second reload, the handler has reloaded the
\* page exactly twice and returns True.
C17_TwoReloads ==
    C17_Scenario =>
        /\ hpc = "returned"
        /\ handler_ret = "True"
        /\ reloads = 2
        /\ reload_attempt >= 2

C17_Witness ==
    /\ C17_Scenario
    /\ hpc = "returned"
    /\ handler_ret = "True"
    /\ reload_attempt = 2

\* C18: whenever the handler has seen an overlay of a recognised class it
\* returns True; and when that overlay is still there after the last reload
\* attempt it has gone for the close control before returning.
C18_RecognisedReturnsTrue ==
    (hpc = "returned" /\ overlay # "none") =>
        /\ handler_ret = "True"
        /\ (checks[Len(checks)] = "recognised" => close_attempted)

\* The first overlay the handler found displayed carried another message than
\* the two recognised ones.
C19_Scenario ==
    /\ hpc = "returned"
    /\ checks \in {<<"other">>, <<"none", "other">>}

\* C19: when the displayed overlay carries a message that is neither of the
\* two recognised texts, the handler reloads nothing, goes for the overlay's
\* close control and returns False.
C19_OtherDismissed ==
    C19_Scenario =>
        /\ handler_ret = "False"
        /\ close_attempted
        /\ reload_attempt = 0
        /\ reloads = 0
        /\ overlay = "none"

C19_Witness == C19_Scenario /\ checks = <<"none", "other">> /\ close_attempted

\* Where a run stands inside a pass of the orchestrator.
PassPosition ==
    LET L == Len(selected_lotteries) IN
    CASE pc = "login" -> 0
      [] pc = "pass_start" -> 1
      [] pc = "item" -> 3 * lottery_index
      [] pc = "entry" -> 3 * lottery_index + 1
      [] pc = "pop" -> 3 * lottery_index + 2
      [] pc = "pass_end" -> 3 * (L + 1) + 1
      [] pc = "reverify" -> 3 * (L + 1) + 1 + verify_index
      [] pc = "verify" -> 4 * (L + 1) + 1 + verify_index
      [] pc = "final_verify" -> 5 * (L + 1) + 1 + verify_index
      [] OTHER -> 0

\* The attempt counter as it stood when the current pass began: a reload in
\* the middle of a pass has raised the counter before the pass is left.
PassOf ==
    IF pc = "pass_end" /\ reload_occurred THEN retry_attempt - 1 ELSE retry_attempt

\* Passes first, position inside the pass second.
OrchRank == 100 * PassOf + PassPosition

\* C20: the orchestrator starts at most max_retry_attempts passes, each new
\* pass after the first comes with an increment of the attempt counter, no
\* pass comes to the same item twice, and every step moves the run forward in
\* its pass or into a later pass, or ends it: the orchestrator terminates.
C20_BoundedPasses ==
    /\ [](/\ passes <= max_retry_attempts
          /\ retry_attempt <= max_retry_attempts
          /\ passes <= retry_attempt + 1
          /\ \A a, b \in 1..Len(visit_log) : a # b => visit_log[a] # visit_log[b])
    /\ [][Done' \/ OrchRank' > OrchRank]_vars

C20_Witness ==
    /\ pc = "returned"
    /\ passes = max_retry_attempts
    /\ Len(visit_log) > 1

\* The attempt cap has ended the run: the outer loop was left with the counter
\* at max_retry_attempts, or the final verification failed with no attempt left.
CapReached ==
    \/ retry_attempt = max_retry_attempts
    \/ /\ retry_attempt = max_retry_attempts - 1
       /\ final_message = Message("StillOpenAtFinalCheck", <<>>)

\* C21: the orchestrator returns with the most recent status read of some
\* targeted item being Open only when the attempt cap has ended the run;
\* before the cap it returns only after every targeted item was last read
\* with another label than Open.
C21_NoOpenUnlessCap ==
    (pc = "returned" /\ last_open # {}) => CapReached

C21_Witness ==
    /\ pc = "returned"
    /\ last_open = {}
    /\ retry_attempt > 0
    /\ retry_attempt < max_retry_attempts - 1
    /\ reopened # {}

\* C21 as stated: the orchestrator never returns while the most recent status
\* read of some targeted item was Open.
C21_AsStated == pc = "returned" => last_open = {}

\* The items the running re-verification loop has read so far.
Reverified == {selected_lotteries[i] : i \in 1..(verify_index - 1)}

\* C22: in the re-verification after a full pass every targeted item is read
\* once more, in order; an item read as Open is out of completed_lotteries
\* from then on, and when the loop is over with such an item another pass is
\* started with the attempt counter raised, in which the item is not skipped
\* as completed; without such an item no pass is started from here.
C22_ReverifyDemotes ==
    /\ [](pc = "reverify" =>
            /\ verify_index <= Len(selected_lotteries) + 1
            /\ (Reverified \cap last_open) \cap completed_lotteries = {}
            /\ (has_open_lotteries <=> Reverified \cap last_open # {}))
    /\ [][(pc = "reverify" /\ pc' # "reverify" /\ pc' # "interrupted") =>
            /\ verify_index = Len(selected_lotteries) + 1
            /\ IF last_open # {}
               THEN /\ pc' = "pass_start"
                    /\ retry_attempt' = retry_attempt + 1
                    /\ last_open \cap completed_lotteries' = {}
               ELSE pc' # "pass_start"]_vars
    /\ [][(pc = "pass_start" /\ pc' = "item") =>
            retry_attempt < max_retry_attempts]_vars

\* An item that was submitted, read as Open by a re-verification and taken out
\* of completed_lotteries is submitted again in a later pass.
C22_Witness ==
    /\ pc = "entry"
    /\ passes >= 2
    /\ selected_lotteries[lottery_index] \in reopened
    /\ "True" \in entry_results[selected_lotteries[lottery_index]]

\* The entry the classification is to record for a label other than Open.
ExpectedStatus(l) ==
    IF l = "Absent" THEN "NotExist"
    ELSE IF l = "Closed" THEN "SkippedClosed"
    ELSE IF l = "Completed" THEN "SkippedCompleted"
    ELSE "Unknown"

\* A step of the pass that reads, without stop and as the page shows it, the
\* label of an item that is not in completed_lotteries and not Open.
C23_Step ==
    /\ pc = "item"
    /\ lottery_index <= Len(selected_lotteries)
    /\ selected_lotteries[lottery_index] \notin completed_lotteries
    /\ label[selected_lotteries[lottery_index]] # "Open"
    /\ visit_log' # visit_log
    /\ label' = label
    /\ anomalies' = anomalies
    /\ ~stopped'

\* C23: the classification of an item that is not in completed_lotteries and
\* whose label is not Open appends exactly one entry (Absent: NotExist,
\* Closed: SkippedClosed, Completed: SkippedCompleted and the item joins
\* completed_lotteries, any other label: Unknown), runs no submission
\* sub-flow and goes on to the next item of the pass.
C23_OneEntryPerLabel ==
    [][C23_Step =>
        LET n == selected_lotteries[lottery_index] IN
        /\ lottery_results' =
              Append(lottery_results, Entry(n, ExpectedStatus(label[n])))
        /\ completed_lotteries' =
              IF label[n] = "Completed" THEN completed_lotteries \cup {n}
              ELSE completed_lotteries
        /\ entry_results' = entry_results
        /\ pc' = "item"
        /\ lottery_index' = lottery_index + 1]_vars

\* The same with the empty label left out.
C23_ExceptEmpty ==
    [][(C23_Step /\ label[selected_lotteries[lottery_index]] # "Empty") =>
        LET n == selected_lotteries[lottery_index] IN
        /\ lottery_results' =
              Append(lottery_results, Entry(n, ExpectedStatus(label[n])))
        /\ completed_lotteries' =
              IF label[n] = "Completed" THEN completed_lotteries \cup {n}
              ELSE completed_lotteries
        /\ entry_results' = entry_results
        /\ pc' = "item"
        /\ lottery_index' = lottery_index + 1]_vars

\* C24: an error in the submission sub-flow of an item (the call returns False)
\* appends one Failure entry for that item and nothing else; the pass then
\* goes on to the next item unless the popup handler reports a reload or the
\* stop is raised; entries already recorded stay in lottery_results, so the
\* outcome returned holds the results of the other items.
C24_ErrorIsLocal ==
    /\ [][(pc = "entry" /\ "False" \notin entry_results[selected_lotteries[lottery_index]]
             /\ "False" \in entry_results'[selected_lotteries[lottery_index]]) =>
            /\ lottery_results' =
                  Append(lottery_results,
                         Entry(selected_lotteries[lottery_index], "Failure"))
            /\ completed_lotteries' = completed_lotteries
            /\ pc' = "pop"
            /\ result' = "False"]_vars
    /\ [][(pc = "pop" /\ result = "False" /\ pc' # "interrupted") =>
            /\ lottery_results' = lottery_results
            /\ \/ pc' = "item" /\ lottery_index' = lottery_index + 1
               \/ pc' = "pass_end" /\ reload_occurred' /\ pop_reloaded']_vars
    /\ [][/\ Len(lottery_results') >= Len(lottery_results)
          /\ \A i \in 1..Len(lottery_results) :
                lottery_results'[i].lottery = lottery_results[i].lottery]_vars

\* A batch has returned with the Failure entry of an item whose sub-flow
\* returned False followed by the entry of the next item.
C24_Witness ==
    /\ pc = "returned"
    /\ Len(lottery_results) >= 2
    /\ lottery_results[1].status = "Failure"
    /\ "False" \in entry_results[lottery_results[1].lottery]
    /\ lottery_results[2].lottery # lottery_results[1].lottery

\* C25: whenever the popup handler has returned True to a call site inside a
\* pass (in the sub-flow of an item, or in the orchestrator after the item was
\* recorded), the inner loop is left with reload_occurred set, so that the
\* next pass starts again from completed_lotteries; the item or the pass is
\* not carried on.
C25_ReloadRestartsPass ==
    [][( \/ /\ pc = "entry"
            /\ pc' \notin {"entry", "interrupted"}
            /\ sub_reloaded' # "none"
         \/ /\ pc = "pop"
            /\ ~pop_reloaded
            /\ pop_reloaded' )
        => (pc' = "pass_end" /\ reload_occurred')]_vars

\* The same for the call sites that look at the handler's result: the check
\* after the apply click and the three checks of the orchestrator.
C25_HeededSites ==
    [][( \/ /\ pc = "entry"
            /\ pc' \notin {"entry", "interrupted"}
            /\ sub_reloaded' = "after_apply"
         \/ /\ pc = "pop"
            /\ ~pop_reloaded
            /\ pop_reloaded' )
        => (pc' = "pass_end" /\ reload_occurred')]_vars

\* C26: the orchestrator is called only after the final verification has seen
\* the session on neither the login page nor the passcode page and without
\* the failure message; a final verification that sees one of them ends
\* lottery_begin with Failure and an empty results list, the orchestrator not
\* having run.
C26_AuthenticatedStart ==
    /\ []((lpc = "post_login" \/ pc = "pass_start") =>
            /\ current_url = "other"
            /\ status_message # "failure")
    /\ [][(lpc = "verify" /\ lpc' # "verify"
             /\ (current_url \in {"login", "mfa"} \/ status_message = "failure"))
            => pc' = "login_failed"]_vars
    /\ [](pc = "login_failed" =>
            /\ SessionOutcome.final_status = "Failure"
            /\ SessionOutcome.results = <<>>
            /\ lottery_results = <<>>
            /\ passes = 0)

\* The orchestrator is about to run after a login that took a passcode round.
C26_Witness ==
    /\ pc = "pass_start"
    /\ lpc = "done"
    /\ otp_calls > 0
    /\ form_submitted

\* The step in which the login form was submitted and the page that answered
\* was read.
C27_Submitted ==
    /\ lpc = "click"
    /\ form_submitted'
    /\ ~stopped'

\* The attempt ends as a failed one: another attempt if one is left.
C27_Retry ==
    /\ failed_attempts' = failed_attempts + 1
    /\ IF login_attempt < max_login_attempts
       THEN lpc' = "loop" /\ pc' = pc
       ELSE pc' = "login_failed"

\* C27: the page read after the submission of the login form is classified
\* in this order: the failure message makes the attempt a failed one whatever
\* the address; else the passcode page or the passcode prompt leads to the
\* OTP loop; else an address other than the login page counts as
\* authenticated; else the attempt is a failed one without being fatal while
\* attempts remain.
C27_Precedence ==
    /\ [][C27_Submitted =>
            IF status_message' = "failure" THEN C27_Retry
            ELSE IF current_url' = "mfa" \/ passcode_shown'
            THEN lpc' = "undecided" /\ failed_attempts' = failed_attempts
            ELSE IF current_url' # "login"
            THEN lpc' = "verify" /\ failed_attempts' = failed_attempts
            ELSE lpc' = "undecided" /\ failed_attempts' = failed_attempts]_vars
    /\ [][(lpc = "undecided" /\ form_submitted /\ ~stopped' /\ lpc' # "undecided") =>
            IF current_url = "mfa" \/ passcode_shown
            THEN lpc' = "otp" /\ failed_attempts' = failed_attempts
            ELSE C27_Retry]_vars

\* The page answered with the failure message at another address, and the
\* login loop has gone on to its second attempt.
C27_Witness ==
    /\ lpc = "loop"
    /\ login_attempt = 1
    /\ failed_attempts = 1
    /\ form_submitted
    /\ status_message = "failure"
    /\ current_url = "other"

\* C28: get_otp_from_gmail is called at most max_otp_retries times in one
\* login attempt and at most max_login_attempts * max_otp_retries times in a
\* batch; an OTP loop that has ended without success on the login page or the
\* passcode page makes the attempt a failed one.
C28_BoundedOtp ==
    /\ [](/\ attempt_otp_calls <= max_otp_retries
          /\ otp_calls <= max_login_attempts * max_otp_retries
          /\ otp_retry <= max_otp_retries)
    /\ [][(lpc = "otp_failed" /\ current_url \in {"login", "mfa"}) =>
            /\ failed_attempts' = failed_attempts + 1
            /\ IF login_attempt < max_login_attempts
               THEN lpc' = "loop"
               ELSE pc' = "login_failed"]_vars

\* Three attempts with two passcode retrievals each have failed.
C28_Witness ==
    /\ pc = "login_failed"
    /\ otp_calls = max_login_attempts * max_otp_retries
    /\ failed_attempts = max_login_attempts

\* ------------------------------------------------------- get_otp_from_gmail

gmailFrame == <<orchOnly, popVars, solverVars, loginVars, entryVars, bookVars>>

\* check_stop() raises: 'except StopIteration: raise', or outside the try.
GmailStopped ==
    /\ stopped' = TRUE
    /\ gpc' = "stopped"

\* What one search of the inbox comes to: a message to the account yields a
\* code; messages are found but none yields a code (another recipient, no
\* pattern matches, an error while one message is read); no message is found;
\* list_messages raises.
PollOutcomes == {"code", "no_code", "no_messages", "error"}

\* A variant in which an exception of the search leaves the function.
AfterPoll_ErrorEnds(o) ==
    IF o = "code" THEN "returned"
    ELSE IF o = "error" THEN "failed"
    ELSE "wait"

\* 'return otp' with a code; in every other case, the exception of the search
\* being caught and logged, control comes to the wait that ends the round.
AfterPoll(o) == IF o = "code" THEN "returned" ELSE "wait"

\* check_stop(), get_service(), the test of EMAIL.
GmailEntry ==
    /\ gpc = "entry"
    /\ \/ /\ GmailStopped
          /\ UNCHANGED otp_attempt
       \/ /\ ~stopped
          /\ gpc' = "failed"
          /\ UNCHANGED <<stopped, otp_attempt>>
       \/ /\ ~stopped
          /\ EMAIL # ""
          /\ gpc' = "poll"
          /\ otp_attempt' = 0
          /\ UNCHANGED stopped
    /\ UNCHANGED <<gmailFrame, EMAIL, otp_polls, otp_poll_errors, broader_searches>>

\* The try block of one round: check_stop(), the search with the passcode
\* query and the messages it returns; in the third round a search that finds
\* nothing is followed by one with the broader query, whose result is logged.
GmailPoll ==
    /\ gpc = "poll"
    /\ otp_attempt < max_otp_polls
    /\ \/ /\ GmailStopped
          /\ UNCHANGED <<otp_polls, otp_poll_errors, broader_searches>>
       \/ /\ ~stopped
          /\ UNCHANGED stopped
          /\ otp_polls' = otp_polls + 1
          /\ \E o \in PollOutcomes :
                /\ otp_poll_errors' =
                      IF o = "error" THEN otp_poll_errors + 1 ELSE otp_poll_errors
                /\ broader_searches' =
                      IF o = "no_messages" /\ otp_attempt = 2
                      THEN broader_searches + 1 ELSE broader_searches
                /\ gpc' = AfterPoll(o)
    /\ UNCHANGED <<gmailFrame, EMAIL, otp_attempt>>

\* The wait that ends a round: five check_stop(); then the next round, or
\* after the last one 'raise Exception("OTP not received after 12 attempts")'.
GmailWait ==
    /\ gpc = "wait"
    /\ \/ /\ GmailStopped
          /\ UNCHANGED otp_attempt
       \/ /\ ~stopped
          /\ UNCHANGED stopped
          /\ IF otp_attempt + 1 < max_otp_polls
             THEN /\ otp_attempt' = otp_attempt + 1
                  /\ gpc' = "poll"
             ELSE /\ gpc' = "timeout"
                  /\ UNCHANGED otp_attempt
    /\ UNCHANGED <<gmailFrame, EMAIL, otp_polls, otp_poll_errors, broader_searches>>

\* One call of get_otp_from_gmail.
InitOtp ==
    /\ Start(<<1>>, [n \in {1} |-> "Open"])
    /\ pc = "otp"
    /\ anomalies = 0
    /\ SolverIdle
    /\ LoginIdle
    /\ EntryIdle
    /\ BookIdle
    /\ gpc = "entry"
    /\ EMAIL \in {"", "set"}
    /\ otp_attempt = 0
    /\ otp_polls = 0
    /\ otp_poll_errors = 0
    /\ broader_searches = 0

NextOtp == GmailEntry \/ GmailPoll \/ GmailWait

SpecOtp == InitOtp /\ [][NextOtp]_vars

\* C29: one call of get_otp_from_gmail searches the inbox with the passcode
\* query once in each round and at most max_otp_polls times; it ends with the
\* timeout exception only after the search of the last round; a search that
\* raises an exception counts as the search of its round and is followed by
\* the wait and the next round like any search without a code.
C29_BoundedPolls ==
    /\ [](/\ otp_polls <= max_otp_polls
          /\ (gpc = "poll" => otp_polls = otp_attempt)
          /\ (gpc = "wait" => otp_polls = otp_attempt + 1)
          /\ (gpc = "timeout" => otp_polls = max_otp_polls)
          /\ (gpc = "failed" => otp_polls = 0))
    /\ [][otp_poll_errors' > otp_poll_errors =>
            /\ gpc' = "wait"
            /\ otp_polls' = otp_polls + 1
            /\ otp_attempt' = otp_attempt]_vars

\* The call has ended with the timeout exception after twelve searches, some
\* of which raised an exception.
C29_Witness ==
    /\ gpc = "timeout"
    /\ otp_polls = max_otp_polls
    /\ otp_poll_errors > 0
    /\ otp_poll_errors < max_otp_polls

\* C30: a poll that is answered with a provider error ends the polls of its
\* task: on an attempt before the last the next attempt follows, which
\* submits a task of its own and polls that one from the start; on the last
\* attempt the call raises; no poll is made for a task after a provider error
\* was reported for it.
C30_NoPollAfterError ==
    /\ [](error_reported => spc # "poll")
    /\ [][polled' = polled + 1 => ~error_reported]_vars
    /\ [][(spc = "poll" /\ error_reported' /\ ~stopped') =>
            IF attempt < max_retries
            THEN spc' = "attempt" /\ attempt' = attempt + 1
            ELSE spc' = "failed"]_vars
    /\ [][(error_reported /\ submitted' = submitted + 1) =>
            /\ ~error_reported'
            /\ polled' = 0]_vars

\* The second poll of the first task was answered with a provider error, and
\* the second attempt is about to submit its task.
C30_Witness ==
    /\ spc = "attempt"
    /\ attempt = 2
    /\ submitted = 1
    /\ polled = 2
    /\ error_reported

\* C31: one overlay recovery makes at most five reload attempts, in the popup
\* handler and in the pop04 loop that lottery_begin runs after the login.
C31_FiveReloadAttempts ==
    /\ reload_attempt <= max_reload_attempts
    /\ reloads <= max_reload_attempts
    /\ post_reload_attempt <= max_reload_attempts
    /\ post_reloads <= max_reload_attempts

\* The same for the popup handler alone.
C31_HandlerBound ==
    /\ reload_attempt <= max_reload_attempts
    /\ reloads <= max_reload_attempts

\* C32: when the popup handler is called after the sub-flow of an item has
\* returned True or False, the entry of the item is the last one recorded and,
\* on True, the item is in completed_lotteries; a reload reported by the
\* handler ends the pass with the attempt counter raised and nothing else
\* recorded; a pass reads no status and runs no sub-flow for an item that is
\* in completed_lotteries.
C32_RecordedBeforeRecovery ==
    /\ [](pc = "pop" =>
            LET n == selected_lotteries[lottery_index] IN
            /\ lottery_results # <<>>
            /\ lottery_results[Len(lottery_results)] =
                  Entry(n, IF result = "True" THEN "Success" ELSE "Failure")
            /\ (result = "True" => n \in completed_lotteries))
    /\ [][(pc = "pop" /\ ~pop_reloaded /\ pop_reloaded') =>
            /\ pc' = "pass_end"
            /\ reload_occurred'
            /\ retry_attempt' = retry_attempt + 1
            /\ lottery_results' = lottery_results
            /\ completed_lotteries' = completed_lotteries]_vars
    /\ [][(pc = "pass_end" /\ reload_occurred) => pc' = "pass_start"]_vars
    /\ [][(/\ pc = "item"
           /\ lottery_index <= Len(selected_lotteries)
           /\ selected_lotteries[lottery_index] \in completed_lotteries
           /\ pc' # "interrupted") =>
            /\ UNCHANGED <<label, anomalies, changed, last_open, entry_results,
                           lottery_results, completed_lotteries>>
            /\ pc' = "item"
            /\ lottery_index' = lottery_index + 1]_vars

\* The pass that follows a reload reported by the handler has skipped the
\* item that was submitted before the reload.
C32_Witness ==
    /\ pc = "item"
    /\ pop_reloaded
    /\ passes = 2
    /\ reopened = {}
    /\ visit_log # <<>>
    /\ visit_log[1] \in completed_lotteries
    /\ entry_results[visit_log[1]] = {"True"}
    /\ lottery_results = <<Entry(visit_log[1], "Success")>>

\* C33: when the sub-flow returns 'reload_needed' (the check that follows the
\* confirmation click reported a reload), no entry is recorded for the item,
\* the item is not in completed_lotteries, the attempt counter is raised and
\* the pass ends with reload_occurred; a later pass that comes to the item
\* reads its status and classifies it again.
C33_ReloadNeeded ==
    /\ [][(pc = "entry" /\ pc' \notin {"entry", "interrupted"}
             /\ sub_reloaded' = "after_apply") =>
            /\ lottery_results' = lottery_results
            /\ completed_lotteries' = completed_lotteries
            /\ selected_lotteries[lottery_index] \notin completed_lotteries'
            /\ retry_attempt' = retry_attempt + 1
            /\ reload_occurred'
            /\ pc' = "pass_end"]_vars
    /\ [][(pc = "pass_end" /\ reload_occurred) =>
            (pc' = "pass_start" /\ UNCHANGED <<lottery_results, completed_lotteries>>)]_vars
    /\ [][(/\ pc = "item"
           /\ lottery_index <= Len(selected_lotteries)
           /\ selected_lotteries[lottery_index] \notin completed_lotteries
           /\ pc' # "interrupted") =>
            LET n == selected_lotteries[lottery_index] IN
            \/ pc' = "entry"
            \/ /\ pc' = "item"
               /\ lottery_index' = lottery_index + 1
               /\ \/ Len(lottery_results') = Len(lottery_results) + 1
                  \/ label'[n] = "Empty"]_vars

\* The item whose sub-flow returned 'reload_needed' in the first pass has been
\* classified in the second pass and is in its sub-flow again, with no entry
\* recorded so far.
C33_Witness ==
    /\ pc = "entry"
    /\ passes = 2
    /\ retry_attempt = 1
    /\ entry_results[selected_lotteries[lottery_index]] = {"reload_needed"}
    /\ lottery_results = <<>>
    /\ completed_lotteries = {}

\* ------------------------------------------- _process_lottery_entry
\* The submission sub-flow of one item up to the click that opens the
\* confirmation modal; what follows the click is one step (Confirm).
entryFrame == <<orchOnly, popVars, solverVars, loginVars, gmailVars, bookVars>>

\* The selection strategies, in the order of the source.
Strategies == 1 .. 5

\* How one strategy can end when no stop is requested: the input is verified
\* as checked ('radio_clicked = True'), the verification reads it as not
\* checked, or a lookup or script raises and 'except Exception' logs it.
\* Strategy 1 does nothing when the p.radio element is not displayed.
StrategyOutcomes(k) ==
    {"verified", "unchecked", "raised"} \cup
    (IF k = 1 THEN {"not_displayed"} ELSE {})

\* 'return False' of the handler 'except Exception' that ends the function.
EntryFalse ==
    /\ entry_ret' = "False"
    /\ epc' = "returned"

\* 'except StopIteration: raise' that ends the function.
EntryRaisesStop ==
    /\ stopped' = TRUE
    /\ entry_ret' = "StopIteration"
    /\ epc' = "returned"

\* The steps before the selection: the CAPTCHA check of the apply page and
\* the click that expands the item's details.
EntryBegin ==
    /\ epc = "begin"
    /\ \E stop \in StopChecks :
          IF stop
          THEN /\ EntryRaisesStop
               /\ UNCHANGED <<strategy, radio_clicked>>
          ELSE /\ UNCHANGED stopped
               /\ \E dt \in {"clicked", "raised"} :
                     IF dt = "raised"
                     THEN /\ EntryFalse
                          /\ UNCHANGED <<strategy, radio_clicked>>
                     ELSE /\ epc' = "strategy"
                          /\ strategy' = 1
                          /\ radio_clicked' = FALSE
                          /\ UNCHANGED entry_ret
    /\ UNCHANGED <<entryFrame, strategy_log, entry_steps>>

\* Where the sub-flow goes after the block of strategy k.
AfterStrategy ==
    IF strategy < 5
    THEN /\ strategy' = strategy + 1
         /\ epc' = "strategy"
    ELSE /\ epc' = "selected"
         /\ UNCHANGED strategy

\* Strategy with the selection taken as made whenever the strategy's script
\* ran to its end, verified or not.
Strategy_Unverified ==
    /\ epc = "strategy"
    /\ ~radio_clicked
    /\ \E stop \in StopChecks :
          IF stop
          THEN /\ stopped' = TRUE
               /\ strategy_log' = Append(strategy_log,
                     [strategy |-> strategy, outcome |-> "stop_swallowed"])
               /\ UNCHANGED radio_clicked
          ELSE /\ UNCHANGED stopped
               /\ \E o \in StrategyOutcomes(strategy) :
                     /\ strategy_log' = Append(strategy_log,
                           [strategy |-> strategy, outcome |-> o])
                     /\ radio_clicked' = (o \in {"verified", "unchecked"})
    /\ AfterStrategy
    /\ UNCHANGED <<entryFrame, entry_steps, entry_ret>>

\* One strategy is attempted. Its check_stop() is inside its 'try', so a
\* requested stop ends the strategy as an ordinary failure.
Strategy ==
    /\ epc = "strategy"
    /\ ~radio_clicked
    /\ \E stop \in StopChecks :
          IF stop
          THEN /\ stopped' = TRUE
               /\ strategy_log' = Append(strategy_log,
                     [strategy |-> strategy, outcome |-> "stop_swallowed"])
               /\ UNCHANGED radio_clicked
          ELSE /\ UNCHANGED stopped
               /\ \E o \in StrategyOutcomes(strategy) :
                     /\ strategy_log' = Append(strategy_log,
                           [strategy |-> strategy, outcome |-> o])
                     /\ radio_clicked' = (o = "verified")
    /\ AfterStrategy
    /\ UNCHANGED <<entryFrame, entry_steps, entry_ret>>

\* 'if not radio_clicked:' of a later strategy is false: its block is passed.
StrategySkip ==
    /\ epc = "strategy"
    /\ radio_clicked
    /\ AfterStrategy
    /\ UNCHANGED <<entryFrame, stopped, radio_clicked, strategy_log, entry_steps,
                   entry_ret>>

\* After the five blocks: without a verified selection the function raises
\* and its handler returns False.
Selected ==
    /\ epc = "selected"
    /\ IF ~radio_clicked
       THEN /\ EntryFalse
            /\ UNCHANGED stopped
       ELSE \E stop \in StopChecks :
               IF stop
               THEN EntryRaisesStop
               ELSE /\ epc' = "consent"
                    /\ UNCHANGED <<stopped, entry_ret>>
    /\ UNCHANGED <<entryFrame, strategy, radio_clicked, strategy_log, entry_steps>>

\* Step 4: the consent checkbox.
Consent ==
    /\ epc = "consent"
    /\ \E stop \in StopChecks :
          IF stop
          THEN /\ EntryRaisesStop
               /\ UNCHANGED entry_steps
          ELSE \E found \in BOOLEAN :
                  IF ~found
                  THEN /\ EntryFalse
                       /\ UNCHANGED <<stopped, entry_steps>>
                  ELSE /\ entry_steps' = Append(entry_steps, "consent")
                       /\ \E after \in StopChecks :
                             IF after
                             THEN EntryRaisesStop
                             ELSE /\ epc' = "presubmit"
                                  /\ UNCHANGED <<stopped, entry_ret>>
    /\ UNCHANGED <<entryFrame, strategy, radio_clicked, strategy_log>>

\* Step 5: the CAPTCHA check before the submission. The check returns
\* whatever happens in it, a stop it observes included.
PreSubmit ==
    /\ epc = "presubmit"
    /\ \E stop \in StopChecks :
          IF stop
          THEN /\ EntryRaisesStop
               /\ UNCHANGED entry_steps
          ELSE /\ entry_steps' = Append(entry_steps, "presubmit")
               /\ \E swallowed \in StopChecks : stopped' = swallowed
               /\ epc' = "submit"
               /\ UNCHANGED entry_ret
    /\ UNCHANGED <<entryFrame, strategy, radio_clicked, strategy_log>>

\* Step 6: the click on the submit control, which opens the modal.
Submit ==
    /\ epc = "submit"
    /\ \E stop \in StopChecks :
          IF stop
          THEN /\ EntryRaisesStop
               /\ UNCHANGED entry_steps
          ELSE \E found \in BOOLEAN :
                  IF ~found
                  THEN /\ EntryFalse
                       /\ UNCHANGED <<stopped, entry_steps>>
                  ELSE /\ entry_steps' = Append(entry_steps, "submit")
                       /\ \E after \in StopChecks :
                             IF after
                             THEN EntryRaisesStop
                             ELSE /\ epc' = "confirm"
                                  /\ UNCHANGED <<stopped, entry_ret>>
    /\ UNCHANGED <<entryFrame, strategy, radio_clicked, strategy_log>>

\* Step 7 to the end: the confirmation click and the checks that follow it.
Confirm ==
    /\ epc = "confirm"
    /\ \E r \in {"True", "False", "reload_needed", "StopIteration"} :
          /\ entry_ret' = r
          /\ stopped' = (IF r = "StopIteration" THEN TRUE ELSE stopped)
          /\ IF stopped THEN r = "StopIteration" ELSE TRUE
    /\ epc' = "returned"
    /\ UNCHANGED <<entryFrame, strategy, radio_clicked, strategy_log, entry_steps>>

\* One call of _process_lottery_entry.
InitEntry ==
    /\ Start(<<1>>, [n \in {1} |-> "Open"])
    /\ pc = "entry"
    /\ anomalies = 0
    /\ SolverIdle
    /\ LoginIdle
    /\ GmailIdle
    /\ BookIdle
    /\ epc = "begin"
    /\ strategy = 0
    /\ radio_clicked = FALSE
    /\ strategy_log = <<>>
    /\ entry_steps = <<>>
    /\ entry_ret = "none"

NextEntry ==
    \/ EntryBegin
    \/ Strategy
    \/ StrategySkip
    \/ Selected
    \/ Consent
    \/ PreSubmit
    \/ Submit
    \/ Confirm

SpecEntry == InitEntry /\ [][NextEntry]_vars

\* Some strategy of the log verified the selection.
SelectionVerified ==
    \E i \in 1 .. Len(strategy_log) : strategy_log[i].outcome = "verified"

\* C34: the strategies are attempted in the order 1, 2, ... and a strategy is
\* attempted only while none before it has verified the selection; the
\* consent control, the CAPTCHA check before the submission and the submit
\* control are reached only after a strategy has verified the selection; when
\* all five strategies have failed the sub-flow returns False with the submit
\* control never clicked.
C34_StrategiesInOrder ==
    /\ \A i \in 1 .. Len(strategy_log) :
          /\ strategy_log[i].strategy = i
          /\ i < Len(strategy_log) => strategy_log[i].outcome # "verified"
    /\ Len(strategy_log) <= 5
    /\ radio_clicked = SelectionVerified
    /\ (entry_steps # <<>> \/ epc \in {"consent", "presubmit", "submit", "confirm"})
          => SelectionVerified
    /\ entry_ret \in {"True", "reload_needed"} => SelectionVerified
    /\ (Len(strategy_log) = 5 /\ ~SelectionVerified) =>
          /\ entry_steps = <<>>
          /\ epc \in {"selected", "returned"}
          /\ epc = "returned" => entry_ret = "False"

\* The third strategy verified the selection after two that failed; the
\* consent control, the CAPTCHA check and the submit control followed.
C34_Witness ==
    /\ epc = "confirm"
    /\ Len(strategy_log) = 3
    /\ strategy_log[3].outcome = "verified"
    /\ entry_steps = <<"consent", "presubmit", "submit">>

\* All five strategies failed and the sub-flow returned False.
C34_WitnessAllFail ==
    /\ epc = "returned"
    /\ Len(strategy_log) = 5
    /\ ~SelectionVerified
    /\ entry_ret = "False"
    /\ entry_steps = <<>>

\* C35: lottery_begin ends in a return, never in an exception that reaches
\* its caller: where it ends it hands over one outcome whose final status is
\* Success, Failure or Interrupted, and nothing happens after that. When it
\* ends through 'except StopIteration' or 'except Exception', the results of
\* the outcome are empty, whatever the orchestrator had recorded.
C35_AlwaysOneOutcome ==
    /\ [](Done =>
            /\ SessionOutcome.final_status \in {"Success", "Failure", "Interrupted"}
            /\ (pc \in {"interrupted", "login_failed"} =>
                   SessionOutcome.results = <<>>)
            /\ (pc = "interrupted" => SessionOutcome.final_status = "Interrupted")
            /\ (pc = "login_failed" => SessionOutcome.final_status = "Failure"))
    /\ [](~Done => SessionOutcome = NoOutcome)
    /\ [][Done => UNCHANGED vars]_vars

\* The batch was cancelled after the orchestrator had recorded an entry; the
\* outcome holds no entry.
C35_Witness ==
    /\ pc = "interrupted"
    /\ lottery_results # <<>>
    /\ SessionOutcome.results = <<>>
    /\ SessionOutcome.final_status = "Interrupted"

\* C36: when the batch returns the final status Success, the results are not
\* empty and every selected item has an entry Success or SkippedCompleted.
C36_SuccessCoversItems ==
    (pc = "returned" /\ final_status = "Success") =>
       /\ lottery_results # <<>>
       /\ \A n \in Range(selected_lotteries) :
             \E i \in 1 .. Len(lottery_results) :
                /\ lottery_results[i].lottery = n
                /\ lottery_results[i].status \in {"Success", "SkippedCompleted"}

\* C37: wherever the orchestrator stands between two of its steps, every
\* item of completed_lotteries is a selected item and has an entry Success or
\* SkippedCompleted in lottery_results; an item that a verification loop
\* reads as Open leaves completed_lotteries in the step that flips its entry.
C37_CompletedHaveEntries ==
    /\ completed_lotteries \subseteq Range(selected_lotteries)
    /\ \A n \in completed_lotteries :
          \E i \in 1 .. Len(lottery_results) :
             /\ lottery_results[i].lottery = n
             /\ lottery_results[i].status \in {"Success", "SkippedCompleted"}

\* The final verification has read an item as Open whose submission had
\* succeeded: the item has left completed_lotteries and its entry reads
\* Failure.
C37_Witness ==
    /\ pc = "final_verify"
    /\ Len(selected_lotteries) = 2
    /\ \E n \in reopened \ completed_lotteries :
          /\ entry_results[n] = {"True"}
          /\ \E i \in 1 .. Len(lottery_results) :
                lottery_results[i] = Entry(n, "Failure")

\* C38: the handler returns False without having reloaded the page only when
\* neither overlay shows its recognised message at the handler's check: a
\* pop04 with the fatal message is handled even when pop05 is displayed with
\* another message or with a message that cannot be read.
C38_FalseMeansNoOverlay ==
    (hpc = "returned" /\ handler_ret = "False" /\ reloads = 0 /\ ~stopped
       /\ checks # <<"raised">>)
    => (pop05 # "recognised" /\ pop04 # "recognised")

\* C39: an entry NotExist is recorded for an item only when the read of the
\* apply page found the list and no status element for the item: at the step
\* that records the entry the page shows no such item.
C39_NotExistOnlyWhenAbsent ==
    [][(/\ Len(lottery_results') = Len(lottery_results) + 1
        /\ lottery_results'[Len(lottery_results')].status = "NotExist")
       => label'[lottery_results'[Len(lottery_results')].lottery] = "Absent"]_vars

\* ---------------------------------------------------- load_data_from_excel
bookFrame == <<orchOnly, stopped, popVars, solverVars, loginVars, entryVars, gpc,
               otp_attempt, otp_polls, otp_poll_errors, broader_searches>>

\* The values of columns A and B of row i, where they are filled.
RowEmail(i) == <<"mail1", "mail2", "mail3", "mail4">>[i]
RowPassword(i) == <<"pass1", "pass2", "pass3", "pass4">>[i]

\* A row of the worksheet: whether its column A and its column B hold a value.
Rows == [email : BOOLEAN, password : BOOLEAN]

\* The body of the loop up to the call of lottery_begin: a row without an
\* address is passed over; EMAIL is the row's address; PASSWORD is assigned
\* only when the row has a password; without one and with PASSWORD None the
\* function raises and the loop is over.
RowLoad ==
    /\ wpc = "row"
    /\ row <= Len(worksheet)
    /\ IF ~worksheet[row].email
       THEN /\ row' = row + 1
            /\ UNCHANGED <<wpc, EMAIL, PASSWORD>>
       ELSE /\ EMAIL' = RowEmail(row)
            /\ UNCHANGED row
            /\ IF worksheet[row].password
               THEN /\ PASSWORD' = RowPassword(row)
                    /\ wpc' = "lottery_begin"
               ELSE IF PASSWORD = "none"
               THEN /\ wpc' = "error"
                    /\ UNCHANGED PASSWORD
               ELSE /\ wpc' = "lottery_begin"
                    /\ UNCHANGED PASSWORD
    /\ UNCHANGED <<bookFrame, worksheet, typed>>

\* lottery_begin for the row: the login form is filled with EMAIL and
\* PASSWORD as they stand, unless the login ends before the form is reached.
\* lottery_begin returns whatever happens in it.
RowLogin ==
    /\ wpc = "lottery_begin"
    /\ \E reached \in BOOLEAN :
          typed' = IF reached
                   THEN Append(typed, [row |-> row, email |-> EMAIL,
                                       password |-> PASSWORD])
                   ELSE typed
    /\ row' = row + 1
    /\ wpc' = "row"
    /\ UNCHANGED <<bookFrame, EMAIL, PASSWORD, worksheet>>

\* The rows are exhausted: the workbook is closed.
BookEnd ==
    /\ wpc = "row"
    /\ row > Len(worksheet)
    /\ wpc' = "done"
    /\ UNCHANGED <<bookFrame, EMAIL, PASSWORD, worksheet, row, typed>>

\* load_data_from_excel on a workbook of MaxRows rows; the environment holds
\* a password or none.
InitBook ==
    /\ Start(<<1>>, [n \in {1} |-> "Open"])
    /\ pc = "workbook"
    /\ anomalies = 0
    /\ SolverIdle
    /\ LoginIdle
    /\ EntryIdle
    /\ gpc = "idle"
    /\ EMAIL = ""
    /\ otp_attempt = 0
    /\ otp_polls = 0
    /\ otp_poll_errors = 0
    /\ broader_searches = 0
    /\ wpc = "row"
    /\ PASSWORD \in {"none", "env"}
    /\ worksheet \in [1 .. MaxRows -> Rows]
    /\ row = 1
    /\ typed = <<>>

NextBook == RowLoad \/ RowLogin \/ BookEnd

SpecBook == InitBook /\ [][NextBook]_vars

\* C40: the password a row's login types is the password of that row or the
\* one configured in the environment, and the address is the row's own: no
\* login types the password of another row.
C40_OwnOrDefaultPassword ==
    \A i \in 1 .. Len(typed) :
       /\ typed[i].email = RowEmail(typed[i].row)
       /\ typed[i].password \in {RowPassword(typed[i].row), "env"}
       /\ worksheet[typed[i].row].password =>
             typed[i].password = RowPassword(typed[i].row)

====
